---- MODULE Spec2Model ----
(***************************************************************************)
(* Style guide generator: markup sanitizer, analyzer and builder.          *)
(* Strings are sequences of one-character strings, so that includes,       *)
(* startsWith, split and the regular expressions of the source are         *)
(* computed character by character.                                        *)
(***************************************************************************)
EXTENDS Integers, Sequences, FiniteSets, TLC

VARIABLES
    imageStore,   \* imageStore.ts: the process-wide path -> data URL record
    frag,         \* sanitizer run: the raw fragment handed to cleanMarkup
    once,         \* sanitizer run: cleanMarkup(frag)
    twice,        \* sanitizer run: cleanMarkup(cleanMarkup(frag))
    cpc,          \* sanitizer run: "idle", "raw", "once" or "twice"
    files,        \* analyzeFiles: the files of the call handled so far
    result,       \* analyzeFiles: the AnalysisResult under construction
    pc,           \* analyzeFiles: "html", "css", "done" or "raised"
    inputs,       \* buildStyleGuide: the arguments both calls are given
    codeBlockId,  \* builder.ts: the module-level code block counter
    today,        \* the calendar day new Date() falls on
    outs,         \* buildStyleGuide: the documents returned so far
    stored,       \* image store run: the storeImage calls since the last clear
    lookup,       \* image store run: the last lookup or rewrite and its result
    session,      \* image store run: the clears made, whether the last one deleted keys
    crawl         \* fetch-url route: the crawl in progress

vars ==
    <<imageStore, frag, once, twice, cpc, files, result, pc,
      inputs, codeBlockId, today, outs, stored, lookup, session, crawl>>

sanitizerVars == <<frag, once, twice, cpc>>

analyzerVars == <<files, result, pc>>

builderVars == <<inputs, codeBlockId, today, outs>>

storeVars == <<stored, lookup, session>>

crawlVars == <<crawl>>

----------------------------------------------------------------------------
(* Characters and strings *)

UpperToLower ==
    "A" :> "a" @@ "B" :> "b" @@ "C" :> "c" @@ "D" :> "d" @@ "E" :> "e" @@
    "F" :> "f" @@ "G" :> "g" @@ "H" :> "h" @@ "I" :> "i" @@ "J" :> "j" @@
    "K" :> "k" @@ "L" :> "l" @@ "M" :> "m" @@ "N" :> "n" @@ "O" :> "o" @@
    "P" :> "p" @@ "Q" :> "q" @@ "R" :> "r" @@ "S" :> "s" @@ "T" :> "t" @@
    "U" :> "u" @@ "V" :> "v" @@ "W" :> "w" @@ "X" :> "x" @@ "Y" :> "y" @@
    "Z" :> "z"

MapChar(m, c) == IF c \in DOMAIN m THEN m[c] ELSE c

Lower(c) == MapChar(UpperToLower, c)

toLowerCase(s) == [k \in 1..Len(s) |-> Lower(s[k])]

\* the characters matched by \s that occur in the fragments
Whitespace == {" ", "\n", "\t"}

\* s has the literal lit at position i
At(s, i, lit) ==
    /\ i >= 1
    /\ i + Len(lit) - 1 <= Len(s)
    /\ \A k \in 1..Len(lit) : s[i + k - 1] = lit[k]

\* the same, ignoring case (the i flag); lit is lower case
AtCI(s, i, lit) ==
    /\ i >= 1
    /\ i + Len(lit) - 1 <= Len(s)
    /\ \A k \in 1..Len(lit) : Lower(s[i + k - 1]) = lit[k]

MinOf(S) == CHOOSE x \in S : \A y \in S : x <= y

\* the least element of a set of positions, 0 for the empty set
FirstOf(S) == IF S = {} THEN 0 ELSE MinOf(S)

\* first index >= from at which the character c stands, 0 when there is none
FirstChar(s, from, c) == FirstOf({j \in from..Len(s) : s[j] = c})

\* first index >= from at which lit stands ignoring case, 0 when there is none
FirstLitCI(s, from, lit) == FirstOf({j \in from..Len(s) : AtCI(s, j, lit)})

includes(s, sub) == \E i \in 1..(Len(s) - Len(sub) + 1) : At(s, i, sub)

startsWith(s, pre) == At(s, 1, pre)

endsWith(s, suf) == Len(suf) <= Len(s) /\ At(s, Len(s) - Len(suf) + 1, suf)

RECURSIVE TrimLeft(_)
TrimLeft(s) ==
    IF s # <<>> /\ Head(s) \in Whitespace THEN TrimLeft(Tail(s)) ELSE s

RECURSIVE TrimRight(_)
TrimRight(s) ==
    IF s # <<>> /\ s[Len(s)] \in Whitespace
    THEN TrimRight(SubSeq(s, 1, Len(s) - 1))
    ELSE s

trim(s) == TrimRight(TrimLeft(s))

RECURSIVE SplitFrom(_, _, _, _)
SplitFrom(s, sep, i, cur) ==
    IF i > Len(s) THEN <<cur>>
    ELSE IF s[i] = sep THEN <<cur>> \o SplitFrom(s, sep, i + 1, <<>>)
    ELSE SplitFrom(s, sep, i + 1, Append(cur, s[i]))

\* String.prototype.split on a one-character separator
split(s, sep) == SplitFrom(s, sep, 1, <<>>)

RECURSIVE Join(_, _)
\* Array.prototype.join
Join(xs, sep) ==
    IF xs = <<>> THEN <<>>
    ELSE IF Len(xs) = 1 THEN Head(xs)
    ELSE Head(xs) \o sep \o Join(Tail(xs), sep)

----------------------------------------------------------------------------
(* Markup sanitizer: src/lib/analyzer.ts, cleanMarkup *)

HandlerNames ==
    { <<"o","n","c","l","i","c","k">>,
      <<"o","n","l","o","a","d">>,
      <<"o","n","e","r","r","o","r">>,
      <<"o","n","m","o","u","s","e","o","v","e","r">>,
      <<"o","n","m","o","u","s","e","o","u","t">>,
      <<"o","n","f","o","c","u","s">>,
      <<"o","n","b","l","u","r">> }

\* /<open[^>]*>[\s\S]*?<close>/i at position i: index of the last character
\* of the match, 0 when the expression does not match at i
\* cl is where the closing tag was found, 0 when there is none
BlockEnd(cl, close) == IF cl = 0 THEN 0 ELSE cl + Len(close) - 1

\* gt is where the ">" of the opening tag was found, 0 when there is none
BlockBody(s, gt, close) ==
    IF gt = 0 THEN 0 ELSE BlockEnd(FirstLitCI(s, gt + 1, close), close)

BlockMatchEnd(s, i, open, close) ==
    IF ~AtCI(s, i, open) THEN 0
    ELSE BlockBody(s, FirstChar(s, i + Len(open), ">"), close)

\* /\s(onclick|...|onblur)="[^"]*"/i at position i
\* N holds the handler name that stands at i + 1, when one does
HandlerValueEnd(s, i, N) ==
    IF N = {} THEN 0
    ELSE FirstChar(s, i + 1 + Len(CHOOSE n \in N : TRUE) + 2, "\"")

HandlerMatchEnd(s, i) ==
    IF ~(i <= Len(s) /\ s[i] \in Whitespace) THEN 0
    ELSE HandlerValueEnd(s, i,
             {n \in HandlerNames : AtCI(s, i + 1, n \o <<"=", "\"">>)})

\* /href=q[^q]*q/i at position i, q the quote character
HrefMatchEnd(s, i, q) ==
    IF ~AtCI(s, i, <<"h","r","e","f","=">> \o <<q>>) THEN 0
    ELSE FirstChar(s, i + 6, q)

RECURSIVE SpaceRunEnd(_, _)
\* last index of the run of whitespace that contains position i
SpaceRunEnd(s, i) ==
    IF i + 1 <= Len(s) /\ s[i + 1] \in Whitespace
    THEN SpaceRunEnd(s, i + 1)
    ELSE i

\* /\s+/ at position i
SpacesMatchEnd(s, i) ==
    IF i <= Len(s) /\ s[i] \in Whitespace THEN SpaceRunEnd(s, i) ELSE 0

\* />\s+</ at position i
\* e is the last index of the whitespace run behind ">"
TagGapEnd(s, e) == IF e + 1 <= Len(s) /\ s[e + 1] = "<" THEN e + 1 ELSE 0

TagGapMatchEnd(s, i) ==
    IF ~(i + 1 <= Len(s) /\ s[i] = ">" /\ s[i + 1] \in Whitespace) THEN 0
    ELSE TagGapEnd(s, SpaceRunEnd(s, i + 1))

MatchEnd(rx, s, i) ==
    CASE rx = "script"  -> BlockMatchEnd(s, i, <<"<","s","c","r","i","p","t">>,
                               <<"<","/","s","c","r","i","p","t",">">>)
      [] rx = "style"   -> BlockMatchEnd(s, i, <<"<","s","t","y","l","e">>,
                               <<"<","/","s","t","y","l","e",">">>)
      [] rx = "handler" -> HandlerMatchEnd(s, i)
      [] rx = "hrefDq"  -> HrefMatchEnd(s, i, "\"")
      [] rx = "hrefSq"  -> HrefMatchEnd(s, i, "'")
      [] rx = "spaces"  -> SpacesMatchEnd(s, i)
      [] rx = "tagGap"  -> TagGapMatchEnd(s, i)

Replacement(rx) ==
    CASE rx = "script"  -> <<>>
      [] rx = "style"   -> <<>>
      [] rx = "handler" -> <<>>
      [] rx = "hrefDq"  -> <<"h","r","e","f","=","\"","#","\"">>
      [] rx = "hrefSq"  -> <<"h","r","e","f","=","'","#","'">>
      [] rx = "spaces"  -> <<" ">>
      [] rx = "tagGap"  -> <<">","\n","<">>

RECURSIVE ReplaceFrom(_, _, _)
\* the scan from i on, ends[j] being where a match that starts at j ends
\* and m the first start of a match from i on (0: none)
ReplaceAt(rx, s, i, ends, m) ==
    IF m = 0 THEN SubSeq(s, i, Len(s))
    ELSE SubSeq(s, i, m - 1) \o Replacement(rx) \o ReplaceFrom(rx, s, ends[m] + 1)

\* the first start of a match from i on
FirstMatch(i, ends) == FirstOf({j \in DOMAIN ends : j >= i /\ ends[j] # 0})

ReplaceScan(rx, s, i, ends) == ReplaceAt(rx, s, i, ends, FirstMatch(i, ends))

\* String.prototype.replace with a g-flagged expression: matches are taken
\* left to right, the scan resumes after each match
ReplaceFrom(rx, s, i) ==
    ReplaceScan(rx, s, i, [j \in 1..Len(s) |-> MatchEnd(rx, s, j)])

replaceAll(rx, s) == ReplaceFrom(rx, s, 1)

----------------------------------------------------------------------------
(* Image store: src/lib/imageStore.ts.  The record is a plain object: its  *)
(* own properties are kept as [key, value] pairs in insertion order (no    *)
(* key of the runs is an array index), and a read of a name it does not    *)
(* own falls through to Object.prototype.                                  *)

EmptyStore == <<>>

\* the names every plain object inherits
ObjectPrototypeKeys ==
    { <<"_","_","p","r","o","t","o","_","_">>,
      <<"c","o","n","s","t","r","u","c","t","o","r">>,
      <<"h","a","s","O","w","n","P","r","o","p","e","r","t","y">>,
      <<"i","s","P","r","o","t","o","t","y","p","e","O","f">>,
      <<"p","r","o","p","e","r","t","y","I","s","E","n","u","m","e","r","a","b","l","e">>,
      <<"t","o","L","o","c","a","l","e","S","t","r","i","n","g">>,
      <<"t","o","S","t","r","i","n","g">>,
      <<"v","a","l","u","e","O","f">>,
      <<"_","_","d","e","f","i","n","e","G","e","t","t","e","r","_","_">>,
      <<"_","_","d","e","f","i","n","e","S","e","t","t","e","r","_","_">>,
      <<"_","_","l","o","o","k","u","p","G","e","t","t","e","r","_","_">>,
      <<"_","_","l","o","o","k","u","p","S","e","t","t","e","r","_","_">> }

\* JavaScript values read from the record: a string, undefined/null, or the
\* inherited member of the given name
Str(s) == [t |-> "string", v |-> s]
Null == [t |-> "null", v |-> <<>>]
Inherited(k) == [t |-> "object", v |-> k]

IsTruthy(x) == x.t = "object" \/ (x.t = "string" /\ x.v # <<>>)

OwnIndex(store, k) == FirstOf({i \in 1..Len(store) : store[i].key = k})

GetAt(store, k, i) ==
    IF i # 0 THEN Str(store[i].value)
    ELSE IF k \in ObjectPrototypeKeys THEN Inherited(k)
    ELSE Null

\* imageStore[k]
Get(store, k) == GetAt(store, k, OwnIndex(store, k))

\* PutAt with an assignment to a key the record owns dropped
PutAtKeepingFirst(store, k, v, i) ==
    IF k = <<"_","_","p","r","o","t","o","_","_">> THEN store
    ELSE IF i # 0 THEN store
    ELSE Append(store, [key |-> k, value |-> v])

\* a string assigned to __proto__ is dropped by the inherited setter
PutAt(store, k, v, i) ==
    IF k = <<"_","_","p","r","o","t","o","_","_">> THEN store
    ELSE IF i # 0 THEN [store EXCEPT ![i].value = v]
    ELSE Append(store, [key |-> k, value |-> v])

\* imageStore[k] = v
Put(store, k, v) == PutAt(store, k, v, OwnIndex(store, k))

RECURSIVE PutAll(_, _, _)
PutAll(store, ks, v) ==
    IF ks = <<>> THEN store ELSE PutAll(Put(store, Head(ks), v), Tail(ks), v)

\* path.replace(/\\/g, '/')
Slashed(path) == [k \in 1..Len(path) |-> IF path[k] = "\\" THEN "/" ELSE path[k]]

\* s.replace(/^\.\.?\//, '')
StripDots(s) ==
    IF startsWith(s, <<".",".","/">>) THEN SubSeq(s, 4, Len(s))
    ELSE IF startsWith(s, <<".","/">>) THEN SubSeq(s, 3, Len(s))
    ELSE s

\* xs.pop() of a split, which is never empty
Last(xs) == xs[Len(xs)]

\* the four keys written for one partial path
PartialKeys(partial) ==
    << partial, <<"/">> \o partial, <<".","/">> \o partial, <<".",".","/">> \o partial >>

RECURSIVE SuffixKeys(_, _)
\* the for loop over parts.slice(i).join('/')
SuffixKeys(parts, i) ==
    IF i > Len(parts) THEN <<>>
    ELSE PartialKeys(Join(SubSeq(parts, i, Len(parts)), <<"/">>))
            \o SuffixKeys(parts, i + 1)

StoreKeys(path, normalized) ==
    << path, normalized, Last(split(normalized, "/")),
       <<".","/">> \o normalized, <<".",".","/">> \o normalized >>
        \o SuffixKeys(split(normalized, "/"), 1)

\* the record after storeImage(path, dataUrl)
storeImage(store, path, dataUrl) == PutAll(store, StoreKeys(path, Slashed(path)), dataUrl)

\* storedPath.endsWith(normalized) ||
\* normalized.endsWith(storedPath.replace(/^\.\.?\//, ''))
ScanHit(storedPath, normalized) ==
    endsWith(storedPath, normalized) \/ endsWith(normalized, StripDots(storedPath))

ScanAt(store, i) == IF i = 0 THEN Null ELSE Str(store[i].value)

\* the for loop over Object.entries(imageStore)
Scan(store, normalized) ==
    ScanAt(store, FirstOf({i \in 1..Len(store) : ScanHit(store[i].key, normalized)}))

FindIn(store, path, normalized, fileName) ==
    IF IsTruthy(Get(store, path)) THEN Get(store, path)
    ELSE IF IsTruthy(Get(store, normalized)) THEN Get(store, normalized)
    ELSE IF IsTruthy(Get(store, fileName)) THEN Get(store, fileName)
    ELSE Scan(store, normalized)

\* the value findImageInStore(path) returns
findImageInStore(path, store) ==
    FindIn(store, path, StripDots(Slashed(path)),
           Last(split(Last(split(path, "/")), "\\")))

\* a clear that leaves the first own key in place
clearImageStoreKeepingFirst(store) == SelectSeq(store, LAMBDA e : e = store[1])

\* the record after clearImageStore(): every own key is deleted
clearImageStore(store) == SelectSeq(store, LAMBDA e : FALSE)

ImageExts ==
    { <<"j","p","g">>, <<"j","p","e","g">>, <<"p","n","g">>, <<"g","i","f">>, <<"s","v","g">>, <<"w","e","b","p">>, <<"i","c","o">>, <<"b","m","p">> }

Quotes == {"\"", "'"}

\* [^"']+\.(jpg|jpeg|png|gif|svg|webp|ico|bmp) matches the whole of p
IsImagePath(p) ==
    \E e \in ImageExts :
        Len(p) >= Len(e) + 2 /\ AtCI(p, Len(p) - Len(e), <<".">> \o e)

NoRef == [end |-> 0, path |-> <<>>]

\* e is the first quote from the start of the path on, 0 when there is none
SrcClose(s, from, e) ==
    IF e # 0 /\ IsImagePath(SubSeq(s, from, e - 1))
    THEN [end |-> e, path |-> SubSeq(s, from, e - 1)]
    ELSE NoRef

\* /src=["']([^"']+\.(jpg|...|bmp))["']/i at position i: the end of the
\* match and the captured path, end = 0 when there is no match
SrcMatch(s, i) ==
    IF AtCI(s, i, <<"s","r","c","=">>) /\ i + 4 <= Len(s) /\ s[i + 4] \in Quotes
    THEN SrcClose(s, i + 5, FirstOf({j \in (i + 5)..Len(s) : s[j] \in Quotes}))
    ELSE NoRef

\* e is the first quote or ")" from the start of the path on
UrlClose(s, from, e) ==
    IF e = 0 \/ ~IsImagePath(SubSeq(s, from, e - 1)) THEN NoRef
    ELSE IF s[e] = ")" THEN [end |-> e, path |-> SubSeq(s, from, e - 1)]
    ELSE IF e + 1 <= Len(s) /\ s[e + 1] = ")"
    THEN [end |-> e + 1, path |-> SubSeq(s, from, e - 1)]
    ELSE NoRef

UrlFrom(s, from) ==
    UrlClose(s, from, FirstOf({j \in from..Len(s) : s[j] \in Quotes \cup {")"}}))

\* /url\(["']?([^"')]+\.(jpg|...|bmp))["']?\)/i at position i
UrlMatch(s, i) ==
    IF ~AtCI(s, i, <<"u","r","l","(">>) THEN NoRef
    ELSE UrlFrom(s, IF i + 4 <= Len(s) /\ s[i + 4] \in Quotes THEN i + 5 ELSE i + 4)

RefMatch(kind, s, i) == IF kind = "src" THEN SrcMatch(s, i) ELSE UrlMatch(s, i)

\* a callback that returns the empty string for a path that is not found
RewrittenDroppingAbsent(kind, match, dataUrl) ==
    IF ~IsTruthy(dataUrl) THEN <<>>
    ELSE IF kind = "src" THEN <<"s","r","c","=","\"">> \o dataUrl.v \o <<"\"">>
    ELSE <<"u","r","l","(","\"">> \o dataUrl.v \o <<"\"", ")">>

\* the callback: dataUrl ? `src="${dataUrl}"` / `url("${dataUrl}")` : match
Rewritten(kind, match, dataUrl) ==
    IF ~IsTruthy(dataUrl) THEN match
    ELSE IF kind = "src" THEN <<"s","r","c","=","\"">> \o dataUrl.v \o <<"\"">>
    ELSE <<"u","r","l","(","\"">> \o dataUrl.v \o <<"\"", ")">>

RECURSIVE ReplaceRefs(_, _, _, _)
\* refs[j] is the match that starts at j, m the first start of a match from
\* i on (0: none)
ReplaceRefAt(kind, s, i, store, refs, m) ==
    IF m = 0 THEN SubSeq(s, i, Len(s))
    ELSE SubSeq(s, i, m - 1)
            \o Rewritten(kind, SubSeq(s, m, refs[m].end),
                          findImageInStore(refs[m].path, store))
            \o ReplaceRefs(kind, s, refs[m].end + 1, store)

RefScan(kind, s, i, store, refs) ==
    ReplaceRefAt(kind, s, i, store, refs,
                 FirstOf({j \in DOMAIN refs : j >= i /\ refs[j].end # 0}))

\* result.replace with a g-flagged expression and the lookup callback
ReplaceRefs(kind, s, i, store) ==
    RefScan(kind, s, i, store, [j \in 1..Len(s) |-> RefMatch(kind, s, j)])

\* replaceImagePaths(content)
replaceImagePaths(content, store) ==
    IF Len(store) = 0 THEN content
    ELSE ReplaceRefs("url", ReplaceRefs("src", content, 1, store), 1, store)

----------------------------------------------------------------------------
(* cleanMarkup: the sanitizer with the image substitution in its place *)

cleanMarkup(html, store) ==
    trim(replaceAll("tagGap",
         replaceAll("spaces",
         replaceImagePaths(
             replaceAll("hrefSq",
             replaceAll("hrefDq",
             replaceAll("handler",
             replaceAll("style",
             replaceAll("script", html))))),
             store))))

----------------------------------------------------------------------------
(* Parsed documents.  A document is the sequence of its elements below     *)
(* <body> in document order; parent = 0 stands for <body>, which carries   *)
(* no class, id or role.  svg marks an element of the SVG namespace, whose *)
(* className is an SVGAnimatedString object and not a string.              *)

Node(tag, svg, cls, id, role, text, parent) ==
    [tag |-> tag, svg |-> svg, cls |-> cls, id |-> id, role |-> role,
     text |-> text, parent |-> parent]

Indices(d) == [i \in 1..Len(d) |-> i]

\* document.querySelectorAll: the matching elements in document order
querySelectorAll(d, Sel(_, _)) == SelectSeq(Indices(d), LAMBDA n : Sel(d, n))

Children(d, n) == SelectSeq(Indices(d), LAMBDA m : d[m].parent = n)

Attr(name, value) ==
    IF value = <<>> THEN <<>>
    ELSE <<" ">> \o name \o <<"=", "\"">> \o value \o <<"\"">>

RECURSIVE outerHTML(_, _)
RECURSIVE SerializeAll(_, _)
SerializeAll(d, ns) ==
    IF ns = <<>> THEN <<>> ELSE outerHTML(d, Head(ns)) \o SerializeAll(d, Tail(ns))

\* Element.outerHTML: the serialized element with its subtree
outerHTML(d, n) ==
    <<"<">> \o d[n].tag
        \o Attr(<<"c","l","a","s","s">>, d[n].cls)
        \o Attr(<<"i","d">>, d[n].id)
        \o Attr(<<"r","o","l","e">>, d[n].role)
        \o <<">">> \o d[n].text \o SerializeAll(d, Children(d, n))
        \o <<"<", "/">> \o d[n].tag \o <<">">>

RECURSIVE textContent(_, _)
RECURSIVE TextAll(_, _)
TextAll(d, ns) ==
    IF ns = <<>> THEN <<>> ELSE textContent(d, Head(ns)) \o TextAll(d, Tail(ns))

textContent(d, n) == d[n].text \o TextAll(d, Children(d, n))

substring(s, from, to) == SubSeq(s, from + 1, IF to < Len(s) THEN to ELSE Len(s))

\* the tokens of a class attribute, as classList and the .name selector see it
ClassTokens(cls) ==
    {t \in {split(cls, " ")[k] : k \in 1..Len(split(cls, " "))} : t # <<>>}

\* a JavaScript value read from el.className: a string (obj = 0), or the
\* SVGAnimatedString object of one SVG element (obj identifies the element)
ClassStr(s) == [obj |-> 0, s |-> s]

ObjectId(f, n) == f * 100 + n

\* el.className of element n in the document parsed from the f-th file
className(d, f, n) ==
    IF d[n].svg THEN [obj |-> ObjectId(f, n), s |-> d[n].cls] ELSE ClassStr(d[n].cls)

Truthy(cv) == cv.obj # 0 \/ cv.s # <<>>

\* cv || dflt
OrElse(cv, dflt) == IF Truthy(cv) THEN cv ELSE ClassStr(dflt)

\* selector pieces
HasTag(d, n, tag) == d[n].tag = tag
HasClass(d, n, c) == c \in ClassTokens(d[n].cls)
ClassHas(d, n, sub) == d[n].cls # <<>> /\ includes(d[n].cls, sub)
IdHas(d, n, sub) == d[n].id # <<>> /\ includes(d[n].id, sub)
HasRole(d, n, r) == d[n].role = r

\* an HTML element whose tagName is the upper-case form of tag
IsHtmlElement(d, n, tag) == n # 0 /\ ~d[n].svg /\ d[n].tag = tag

----------------------------------------------------------------------------
(* extractedMarkup entries.  count = 0 stands for an entry without count   *)
(* (the code reads it as `count || 1` and `count || 0`).                   *)

Entry(classes, html, text, count) ==
    [classes |-> classes, html |-> html, text |-> text, count |-> count]

\* list.find(e => e.classes === key): index of the first such entry, or 0
FindByClasses(list, key) == FirstOf({i \in 1..Len(list) : list[i].classes = key})

\* existing.count = (existing.count || 1) + 1
Increment(list, i) ==
    [list EXCEPT ![i].count = (IF @ = 0 THEN 1 ELSE @) + 1]

\* i is the index of the entry kept under key, 0 when there is none
CountOrPushAt(list, i, key, html, text) ==
    IF i # 0 THEN Increment(list, i) ELSE Append(list, Entry(key, html, text, 1))

\* the counting step shared by the class-based passes
CountOrPush(list, key, html, text) ==
    CountOrPushAt(list, FindByClasses(list, key), key, html, text)

\* markup[n] is cleanMarkup(el.outerHTML) for the element n of d
Sanitized(d, store) == [n \in 1..Len(d) |-> cleanMarkup(outerHTML(d, n), store)]

\* the body of the forEach for one element: the size cap (caps is empty for
\* a pass without cap), then count or push under el.className
CountStep(list, key, html, text, caps) ==
    IF \A c \in caps : Len(html) < c THEN CountOrPush(list, key, html, text) ELSE list

RECURSIVE CountFold(_, _, _, _, _, _, _)
\* forEach over the selected elements
CountFold(list, d, f, nodes, caps, withText, markup) ==
    IF nodes = <<>> THEN list
    ELSE CountFold(CountStep(list, className(d, f, Head(nodes)), markup[Head(nodes)],
                             IF withText
                             THEN substring(trim(textContent(d, Head(nodes))), 0, 30)
                             ELSE <<>>,
                             caps),
                   d, f, Tail(nodes), caps, withText, markup)

----------------------------------------------------------------------------
(* Component extractor: src/lib/analyzer.ts, extractComponents.  R is the  *)
(* AnalysisResult under construction, d the parsed document of the f-th    *)
(* file.  A step that calls a string method on an SVGAnimatedString raises *)
(* a TypeError; the Throws predicates say when a pass reaches such a step. *)

SliderWords ==
    { <<"s","w","i","p","e","r">>, <<"s","l","i","c","k">>, <<"o","w","l","-">>,
      <<"b","x","-">>, <<"s","p","l","i","d","e">> }

HasSliderWord(s) == \E w \in SliderWords : includes(toLowerCase(s), w)

RECURSIVE AncestorSlider(_, _)
\* the while loop over parentElement: "true", "false", or "throw" when
\* parent.className?.toLowerCase is called on an SVG element
AncestorSlider(d, p) ==
    IF p = 0 THEN "false"
    ELSE IF d[p].svg THEN "throw"
    ELSE IF HasSliderWord(d[p].cls) THEN "true"
    ELSE AncestorSlider(d, d[p].parent)

isSliderRelated(d, n) ==
    IF d[n].svg THEN "throw"
    ELSE IF HasSliderWord(d[n].cls) THEN "true"
    ELSE AncestorSlider(d, d[n].parent)

SelButtons(d, n) ==
    \/ HasTag(d, n, <<"b","u","t","t","o","n">>)
    \/ HasClass(d, n, <<"b","t","n">>)
    \/ ClassHas(d, n, <<"b","t","n","-">>)

ButtonText(d, n) == substring(trim(textContent(d, n)), 0, 30)

IsButtonTag(d, n) == d[n].tag = <<"b","u","t","t","o","n">>

\* className || (isButtonTag ? 'button' : '')
ButtonKey(d, n, cn) ==
    IF Truthy(cn) THEN cn
    ELSE ClassStr(IF IsButtonTag(d, n) THEN <<"b","u","t","t","o","n">> ELSE <<>>)

\* the body of the forEach for the element n: cn is its className, html
\* its sanitized markup
ButtonsStep(acc, d, n, cn, html) ==
    IF isSliderRelated(d, n) # "false" THEN acc
    ELSE [m   |-> IF IsButtonTag(d, n) \/ Truthy(cn)
                  THEN CountOrPush(acc.m, ButtonKey(d, n, cn), html, ButtonText(d, n))
                  ELSE acc.m,
          raw |-> Append(acc.raw, [classes |-> cn, text |-> ButtonText(d, n)])]

RECURSIVE ButtonsFold(_, _, _, _, _)
\* acc.m is markup.buttons, acc.raw is result.buttons
ButtonsFold(acc, d, f, nodes, markup) ==
    IF nodes = <<>> THEN acc
    ELSE ButtonsFold(ButtonsStep(acc, d, Head(nodes), className(d, f, Head(nodes)),
                                 markup[Head(nodes)]),
                     d, f, Tail(nodes), markup)

ButtonsPut(R, acc) == [R EXCEPT !.extractedMarkup.buttons = acc.m, !.buttons = acc.raw]

ButtonsPass(R, d, f, markup) ==
    ButtonsPut(R, ButtonsFold([m |-> R.extractedMarkup.buttons, raw |-> R.buttons],
                              d, f, querySelectorAll(d, SelButtons), markup))

ButtonsThrows(d) ==
    \E n \in 1..Len(d) : SelButtons(d, n) /\ isSliderRelated(d, n) = "throw"

SelForms(d, n) ==
    \/ HasClass(d, n, <<"f","o","r","m","-","g","r","o","u","p">>)
    \/ HasClass(d, n, <<"f","o","r","m","-","r","o","w">>)
    \/ HasClass(d, n, <<"f","o","r","m","-","i","t","e","m">>)
    \/ HasClass(d, n, <<"w","r","i","t","e","-","f","o","r","m">>)

SelInputs(d, n) ==
    \/ HasTag(d, n, <<"i","n","p","u","t">>)
    \/ HasTag(d, n, <<"s","e","l","e","c","t">>)
    \/ HasTag(d, n, <<"t","e","x","t","a","r","e","a">>)

\* element.type || el.tagName.toLowerCase(): the documents carry no type
\* attribute, so the type is the element's default
InputType(d, n) ==
    IF d[n].svg THEN d[n].tag
    ELSE IF d[n].tag = <<"i","n","p","u","t">> THEN <<"t","e","x","t">>
    ELSE IF d[n].tag = <<"s","e","l","e","c","t">>
         THEN <<"s","e","l","e","c","t","-","o","n","e">>
    ELSE d[n].tag

RECURSIVE InputsFold(_, _, _, _)
InputsFold(raw, d, f, nodes) ==
    IF nodes = <<>> THEN raw
    ELSE InputsFold(Append(raw, [type |-> InputType(d, Head(nodes)),
                                 classes |-> className(d, f, Head(nodes))]),
                    d, f, Tail(nodes))

FormsPass(R, d, f, markup) ==
    [R EXCEPT !.extractedMarkup.forms =
                  CountFold(@, d, f, querySelectorAll(d, SelForms), {2000}, FALSE, markup),
              !.inputs = InputsFold(@, d, f, querySelectorAll(d, SelInputs))]

\* isTableWrapper(el); x = 0 is <body> (or <html>), which is no DIV
isTableWrapper(d, x) ==
    /\ IsHtmlElement(d, x, <<"d","i","v">>)
    /\ \/ includes(d[x].cls, <<"t","a","b","l","e","-","w","r","a","p">>)
       \/ includes(d[x].cls, <<"t","a","b","l","e","_","w","r","a","p">>)
       \/ includes(d[x].cls, <<"t","a","b","l","e","-","r","e","s","p","o","n","s","i","v","e">>)
       \/ includes(d[x].cls, <<"t","b","l","-","w","r","a","p">>)
       \/ includes(d[x].cls, <<"t","b","l","_","w","r","a","p">>)
       \/ HasClass(d, x, <<"t","a","b","l","e">>)
       \/ HasClass(d, x, <<"t","b","l">>)

parentElement(d, n) == IF n = 0 THEN 0 ELSE d[n].parent

\* the element captured for the <table> n: the grandparent is tried first,
\* then the parent, else the table itself
TableTarget(d, n) ==
    LET parent == parentElement(d, n)
        grandparent == parentElement(d, parent)
    IN  IF isTableWrapper(d, grandparent) THEN grandparent
        ELSE IF isTableWrapper(d, parent) THEN parent
        ELSE n

SelTable(d, n) == HasTag(d, n, <<"t","a","b","l","e">>)

\* the body of the forEach: i is the index of the entry kept under
\* targetClass (0: none), raw is result.tables with the table's class pushed
TablesStep(acc, targetEl, targetClass, html, i, raw) ==
    IF ~(Len(html) < 5000) THEN [acc EXCEPT !.raw = raw]
    ELSE IF i # 0 THEN [acc EXCEPT !.raw = raw, !.m = Increment(@, i)]
    ELSE IF targetEl \notin acc.seen
    THEN [m |-> Append(acc.m, Entry(targetClass, html, <<>>, 1)),
          raw |-> raw, seen |-> acc.seen \cup {targetEl}]
    ELSE [acc EXCEPT !.raw = raw]

TablesKeyed(acc, targetEl, targetClass, html, raw) ==
    TablesStep(acc, targetEl, targetClass, html, FindByClasses(acc.m, targetClass), raw)

\* the <table> n, captured as targetEl
TablesAt(acc, d, f, n, targetEl, markup) ==
    TablesKeyed(acc, targetEl,
                OrElse(className(d, f, targetEl), <<"t","a","b","l","e">>),
                markup[targetEl], Append(acc.raw, className(d, f, n)))

RECURSIVE TablesFold(_, _, _, _, _)
\* acc.m is markup.tables, acc.raw is result.tables, acc.seen is
\* extractedTableElements
TablesFold(acc, d, f, nodes, markup) ==
    IF nodes = <<>> THEN acc
    ELSE TablesFold(TablesAt(acc, d, f, Head(nodes), TableTarget(d, Head(nodes)), markup),
                    d, f, Tail(nodes), markup)

TablesPut(R, acc) == [R EXCEPT !.extractedMarkup.tables = acc.m, !.tables = acc.raw]

TablesPass(R, d, f, markup) ==
    TablesPut(R, TablesFold([m |-> R.extractedMarkup.tables, raw |-> R.tables,
                             seen |-> {}],
                            d, f, querySelectorAll(d, SelTable), markup))

SelBoxes(d, n) ==
    \/ HasClass(d, n, <<"b","o","x">>)
    \/ HasClass(d, n, <<"b","o","x","-","w","r","a","p">>)
    \/ HasClass(d, n, <<"f","l","e","x","-","b","o","x">>)

SelHelperBoxes(d, n) == HasClass(d, n, <<"h","e","l","p","e","r","-","b","o","x">>)

SelLists(d, n) ==
    \/ HasClass(d, n, <<"l","i","s","t","-","d","o","t">>)
    \/ HasClass(d, n, <<"l","i","s","t","-","o","r","d","e","r">>)
    \/ HasClass(d, n, <<"l","i","s","t","-","d","a","s","h">>)
    \/ HasClass(d, n, <<"l","i","s","t","-","s","d","o","t">>)

SelStepLists(d, n) ==
    \/ HasClass(d, n, <<"s","t","e","p","-","l","i","s","t">>)
    \/ HasClass(d, n, <<"l","i","s","t","-","p","r","o","c","e","d","u","r","e">>)

SelBreadcrumbs(d, n) ==
    \/ HasClass(d, n, <<"b","r","e","a","d","c","r","u","m","b","-","w","r","a","p">>)
    \/ HasClass(d, n, <<"b","r","e","a","d","c","r","u","m","b">>)

SelMenus(d, n) ==
    \/ HasClass(d, n, <<"t","o","p","m","e","n","u">>)
    \/ HasClass(d, n, <<"h","e","a","d","-","g","n","b">>)

SelLeftMenus(d, n) ==
    \/ HasClass(d, n, <<"l","e","f","t","-","m","e","n","u">>)
    \/ d[n].id = <<"s","n","b">>

\* boxes, helper boxes, lists, step lists, breadcrumbs, menus, left menus
SimplePasses(R, d, f, markup) ==
    [R EXCEPT
       !.extractedMarkup.boxes =
           CountFold(@, d, f, querySelectorAll(d, SelBoxes), {2000}, FALSE, markup),
       !.extractedMarkup.helperBoxes =
           CountFold(@, d, f, querySelectorAll(d, SelHelperBoxes), {2000}, FALSE, markup),
       !.extractedMarkup.lists =
           CountFold(@, d, f, querySelectorAll(d, SelLists), {1500}, FALSE, markup),
       !.extractedMarkup.stepLists =
           CountFold(@, d, f, querySelectorAll(d, SelStepLists), {3000}, FALSE, markup),
       !.extractedMarkup.breadcrumbs =
           CountFold(@, d, f, querySelectorAll(d, SelBreadcrumbs), {}, FALSE, markup),
       !.extractedMarkup.menus =
           CountFold(@, d, f, querySelectorAll(d, SelMenus), {5000}, FALSE, markup),
       !.extractedMarkup.leftMenus =
           CountFold(@, d, f, querySelectorAll(d, SelLeftMenus), {5000}, FALSE, markup)]

SelTabs(d, n) ==
    \/ HasClass(d, n, <<"t","a","b","s">>)
    \/ HasClass(d, n, <<"t","a","b","-","n","a","v">>)
    \/ HasClass(d, n, <<"t","a","b","-","c","o","n","t","s","-","w","r","a","p">>)
    \/ HasRole(d, n, <<"t","a","b","l","i","s","t">>)

\* className.includes('contents') || ...('section') || ...('page-')
IsBigContainer(cls) ==
    \/ includes(cls, <<"c","o","n","t","e","n","t","s">>)
    \/ includes(cls, <<"s","e","c","t","i","o","n">>)
    \/ includes(cls, <<"p","a","g","e","-">>)

TabNodes(d) ==
    SelectSeq(querySelectorAll(d, SelTabs), LAMBDA n : ~IsBigContainer(d[n].cls))

TabsPass(R, d, f, markup) ==
    [R EXCEPT !.extractedMarkup.tabs =
                  CountFold(@, d, f, TabNodes(d), {1500}, FALSE, markup)]

\* className.includes is called on every selected element
TabsThrows(d) == \E n \in 1..Len(d) : SelTabs(d, n) /\ d[n].svg

SelPaginations(d, n) ==
    \/ HasClass(d, n, <<"p","a","g","e","-","n","a","v","i">>)
    \/ HasClass(d, n, <<"p","a","g","e","-","l","i","n","k","s">>)
    \/ HasClass(d, n, <<"p","a","g","i","n","g">>)
    \/ HasClass(d, n, <<"p","a","g","i","n","a","t","i","o","n">>)
    \/ ClassHas(d, n, <<"p","a","g","i","n","g">>)
    \/ ClassHas(d, n, <<"p","a","g","e","r">>)
    \/ ClassHas(d, n, <<"_","p","a","g","e","r">>)
    \/ ClassHas(d, n, <<"-","p","a","g","e","r">>)

\* isPaginationWrapper(elem): "true", "false", or "throw" when
\* className.includes is called on the className object of an SVG element
isPaginationWrapper(d, x) ==
    IF x = 0 THEN "false"
    ELSE IF d[x].svg THEN "throw"
    ELSE IF \/ includes(d[x].cls, <<"p","a","g","i","n","g">>)
            \/ includes(d[x].cls, <<"p","a","g","e","r">>)
            \/ includes(d[x].cls, <<"p","a","g","i","n","a","t","i","o","n">>)
            \/ includes(d[x].cls, <<"p","a","g","e","-","n","a","v","i">>)
            \/ d[x].tag = <<"n","a","v">>
         THEN "true" ELSE "false"

\* gp and pp are isPaginationWrapper of the grandparent and of the parent
PaginationPick(gp, pp, grandparent, parent, n) ==
    IF gp = "throw" THEN 0
    ELSE IF gp = "true" THEN grandparent
    ELSE IF pp = "throw" THEN 0
    ELSE IF pp = "true" THEN parent
    ELSE n

\* the element captured for the matched element n, or 0 when the wrapper
\* test raises: the grandparent is tried first, then the parent
PaginationTarget(d, n) ==
    PaginationPick(isPaginationWrapper(d, parentElement(d, parentElement(d, n))),
                   isPaginationWrapper(d, parentElement(d, n)),
                   parentElement(d, parentElement(d, n)), parentElement(d, n), n)

\* list.some(e => e.html.includes(html) || html.includes(e.html))
IsDuplicate(list, html) ==
    \E k \in 1..Len(list) : includes(list[k].html, html) \/ includes(html, list[k].html)

\* i is the index of the entry kept under targetClass, 0 when there is none
PaginationsStep(list, targetClass, html, i) ==
    IF ~(Len(html) < 3000) THEN list
    ELSE IF i # 0 THEN Increment(list, i)
    ELSE IF ~IsDuplicate(list, html)
    THEN Append(list, Entry(targetClass, html, <<>>, 1))
    ELSE list

PaginationsKeyed(list, targetClass, html) ==
    PaginationsStep(list, targetClass, html, FindByClasses(list, targetClass))

PaginationsAt(list, d, f, targetEl, markup) ==
    PaginationsKeyed(list,
                     OrElse(className(d, f, targetEl),
                            <<"p","a","g","i","n","a","t","i","o","n">>),
                     markup[targetEl])

RECURSIVE PaginationsFold(_, _, _, _, _)
PaginationsFold(list, d, f, nodes, markup) ==
    IF nodes = <<>> THEN list
    ELSE PaginationsFold(PaginationsAt(list, d, f, PaginationTarget(d, Head(nodes)),
                                       markup),
                         d, f, Tail(nodes), markup)

PaginationsPass(R, d, f, markup) ==
    [R EXCEPT !.extractedMarkup.paginations =
                  PaginationsFold(@, d, f, querySelectorAll(d, SelPaginations), markup)]

PaginationsThrows(d) ==
    \E n \in 1..Len(d) : SelPaginations(d, n) /\ PaginationTarget(d, n) = 0

SelModals(d, n) ==
    \/ HasClass(d, n, <<"m","o","d","a","l">>)
    \/ HasClass(d, n, <<"p","o","p","u","p">>)
    \/ ClassHas(d, n, <<"l","a","y","e","r">>)

RECURSIVE ClassNames(_, _, _)
\* el.className of each element of nodes
ClassNames(d, f, nodes) ==
    IF nodes = <<>> THEN <<>>
    ELSE <<className(d, f, Head(nodes))>> \o ClassNames(d, f, Tail(nodes))

ModalsPass(R, d, f, markup) ==
    [R EXCEPT !.extractedMarkup.modals =
                  CountFold(@, d, f, querySelectorAll(d, SelModals), {5000}, FALSE, markup),
              !.modals = @ \o ClassNames(d, f, querySelectorAll(d, SelModals))]

SelBadges(d, n) ==
    \/ HasClass(d, n, <<"b","a","d","g","e">>)
    \/ ClassHas(d, n, <<"b","a","d","g","e">>)
    \/ HasClass(d, n, <<"t","a","g">>)
    \/ ClassHas(d, n, <<"s","t","a","t","e","-">>)
    \/ ClassHas(d, n, <<"s","t","a","t","u","s","-">>)

SelAccordions(d, n) ==
    \/ HasClass(d, n, <<"a","c","c","o","r","d","i","o","n">>)
    \/ ClassHas(d, n, <<"a","c","c","o","r","d","i","o","n">>)
    \/ HasClass(d, n, <<"c","o","l","l","a","p","s","e">>)
    \/ HasClass(d, n, <<"t","o","g","g","l","e","-","w","r","a","p">>)
    \/ HasClass(d, n, <<"a","c","o","-","w","r","a","p">>)

BadgesAccordionsPass(R, d, f, markup) ==
    [R EXCEPT
       !.extractedMarkup.badges =
           CountFold(@, d, f, querySelectorAll(d, SelBadges), {500}, TRUE, markup),
       !.extractedMarkup.accordions =
           CountFold(@, d, f, querySelectorAll(d, SelAccordions), {5000}, FALSE, markup)]

----------------------------------------------------------------------------
(* Typography and icons *)

Headings ==
    { <<"h","1">>, <<"h","2">>, <<"h","3">>, <<"h","4">>, <<"h","5">>, <<"h","6">> }

RECURSIVE HasAncestor(_, _, _)
\* some proper ancestor of n is in the set S of elements
HasAncestor(d, n, S) ==
    LET p == parentElement(d, n)
    IN  p # 0 /\ (p \in S \/ HasAncestor(d, p, S))

\* the scope of the heading selector: <main> first, else .contents, else
\* the whole document
TypoScope(d) ==
    LET mains == {n \in 1..Len(d) : HasTag(d, n, <<"m","a","i","n">>)}
        conts == {n \in 1..Len(d) : HasClass(d, n, <<"c","o","n","t","e","n","t","s">>)}
    IN  IF mains # {} THEN [all |-> FALSE, roots |-> mains]
        ELSE IF conts # {} THEN [all |-> FALSE, roots |-> conts]
        ELSE [all |-> TRUE, roots |-> {}]

SelTypography(d, n) ==
    /\ d[n].tag \in Headings
    /\ d[n].cls # <<>>
    /\ TypoScope(d).all \/ HasAncestor(d, n, TypoScope(d).roots)

FindTypo(info, cls) == FirstOf({i \in 1..Len(info) : info[i].className = cls})

IsTitleClass(cls) ==
    cls # <<>> /\ (\/ includes(toLowerCase(cls), <<"t","i","t","l","e">>)
                   \/ includes(toLowerCase(cls), <<"t","i","t">>))

\* i is the index of the entry kept for cls, 0 when there is none
TypoStep(info, d, n, cls, i) ==
    IF ~IsTitleClass(cls) THEN info
    ELSE IF i # 0 THEN [info EXCEPT ![i].count = @ + 1]
    ELSE Append(info, [className |-> cls, tagName |-> d[n].tag,
                       text |-> substring(trim(textContent(d, n)), 0, 50),
                       count |-> 1])

TypoClass(info, d, n, cls) == TypoStep(info, d, n, cls, FindTypo(info, cls))

RECURSIVE TypoClasses(_, _, _, _)
\* classValue.split(' ').forEach for one heading element n
TypoClasses(info, d, n, parts) ==
    IF parts = <<>> THEN info
    ELSE TypoClasses(TypoClass(info, d, n, trim(Head(parts))), d, n, Tail(parts))

RECURSIVE TypoFold(_, _, _)
TypoFold(info, d, nodes) ==
    IF nodes = <<>> THEN info
    ELSE TypoFold(TypoClasses(info, d, Head(nodes), split(d[Head(nodes)].cls, " ")),
                  d, Tail(nodes))

\* Set.prototype.add on a set kept in insertion order
SetAdd(set, x) == IF \E i \in 1..Len(set) : set[i] = x THEN set ELSE Append(set, x)

RECURSIVE SetAddAll(_, _)
SetAddAll(set, xs) ==
    IF xs = <<>> THEN set ELSE SetAddAll(SetAdd(set, Head(xs)), Tail(xs))

SelIcons(d, n) ==
    \/ ClassHas(d, n, <<"i","c","o","-">>)
    \/ ClassHas(d, n, <<"i","c","o","n","-">>)
    \/ HasClass(d, n, <<"s","v","g","-","i","c","o","n">>)

IsIconClass(cls) == includes(cls, <<"i","c","o","-">>) \/ includes(cls, <<"i","c","o","n","-">>)

RECURSIVE IconsFold(_, _, _)
IconsFold(icons, d, nodes) ==
    IF nodes = <<>> THEN icons
    ELSE IconsFold(SetAddAll(icons, SelectSeq(split(d[Head(nodes)].cls, " "), IsIconClass)),
                   d, Tail(nodes))

TypographyIconsPass(R, d) ==
    [R EXCEPT !.typographyInfo = TypoFold(@, d, querySelectorAll(d, SelTypography)),
              !.icons = IconsFold(@, d, querySelectorAll(d, SelIcons))]

----------------------------------------------------------------------------
(* Role-based and id-based passes *)

\* list.map(e => e.classes).includes(key)
ClassesInclude(list, key) == \E i \in 1..Len(list) : list[i].classes = key

RECURSIVE TruthyOnly(_)
\* the class names pushed under `if (element.className)`
TruthyOnly(cvs) ==
    IF cvs = <<>> THEN <<>>
    ELSE (IF Truthy(Head(cvs)) THEN <<Head(cvs)>> ELSE <<>>) \o TruthyOnly(Tail(cvs))

\* the body of the forEach of a role pass: cn is el.className
RoleStep(list, cn, html, limit, cap, fallback) ==
    IF Len(list) < limit /\ Len(html) < cap /\ ~ClassesInclude(list, cn)
    THEN Append(list, Entry(OrElse(cn, fallback), html, <<>>, 0))
    ELSE list

RECURSIVE RoleFold(_, _, _, _, _, _, _, _)
\* the role passes for lists, modals and tables: while the list is shorter
\* than limit and the markup is below cap, push an entry without count under
\* el.className || fallback, unless el.className is already a key
RoleFold(list, d, f, nodes, limit, cap, fallback, markup) ==
    IF nodes = <<>> THEN list
    ELSE RoleFold(RoleStep(list, className(d, f, Head(nodes)), markup[Head(nodes)],
                           limit, cap, fallback),
                  d, f, Tail(nodes), limit, cap, fallback, markup)

SelRoleList(d, n) == HasRole(d, n, <<"l","i","s","t">>)
SelRoleTablist(d, n) == HasRole(d, n, <<"t","a","b","l","i","s","t">>)
SelRoleDialog(d, n) ==
    \/ HasRole(d, n, <<"d","i","a","l","o","g">>)
    \/ HasRole(d, n, <<"a","l","e","r","t","d","i","a","l","o","g">>)
SelRoleButton(d, n) == HasRole(d, n, <<"b","u","t","t","o","n">>)
SelRoleNavigation(d, n) == HasRole(d, n, <<"n","a","v","i","g","a","t","i","o","n">>)
SelRoleTable(d, n) ==
    HasRole(d, n, <<"t","a","b","l","e">>) \/ HasRole(d, n, <<"g","r","i","d">>)

RoleListPass(R, d, f, markup) ==
    LET nodes == querySelectorAll(d, SelRoleList)
    IN  [R EXCEPT
           !.extractedMarkup.lists =
               RoleFold(@, d, f, nodes, 5, 1500, <<"r","o","l","e","-","l","i","s","t">>, markup),
           !.components.lists = @ \o TruthyOnly(ClassNames(d, f, nodes))]

RoleTablistPass(R, d, f) ==
    [R EXCEPT !.components.tabs =
                  @ \o TruthyOnly(ClassNames(d, f, querySelectorAll(d, SelRoleTablist)))]

RoleDialogPass(R, d, f, markup) ==
    LET nodes == querySelectorAll(d, SelRoleDialog)
    IN  [R EXCEPT
           !.extractedMarkup.modals =
               RoleFold(@, d, f, nodes, 3, 5000,
                        <<"r","o","l","e","-","d","i","a","l","o","g">>, markup),
           !.modals = @ \o TruthyOnly(ClassNames(d, f, nodes)),
           !.components.modals = @ \o TruthyOnly(ClassNames(d, f, nodes))]

\* the body of the forEach for the element n; only the element's own class
\* is tested for slider words
RoleButtonStep(acc, d, n, cn, html) ==
    IF HasSliderWord(d[n].cls) THEN acc
    ELSE [m |-> IF FindByClasses(acc.m, cn) = 0 /\ Truthy(cn)
                THEN Append(acc.m, Entry(cn, html, ButtonText(d, n), 0))
                ELSE acc.m,
          c |-> IF Truthy(cn) THEN Append(acc.c, cn) ELSE acc.c]

RECURSIVE RoleButtonFold(_, _, _, _, _)
\* acc.m is markup.buttons, acc.c is components.buttons
RoleButtonFold(acc, d, f, nodes, markup) ==
    IF nodes = <<>> THEN acc
    ELSE RoleButtonFold(RoleButtonStep(acc, d, Head(nodes), className(d, f, Head(nodes)),
                                       markup[Head(nodes)]),
                        d, f, Tail(nodes), markup)

RoleButtonPut(R, acc) ==
    [R EXCEPT !.extractedMarkup.buttons = acc.m, !.components.buttons = acc.c]

RoleButtonPass(R, d, f, markup) ==
    RoleButtonPut(R, RoleButtonFold([m |-> R.extractedMarkup.buttons,
                                     c |-> R.components.buttons],
                                    d, f, querySelectorAll(d, SelRoleButton), markup))

\* element.className?.toLowerCase() on an SVG element
RoleButtonThrows(d) == \E n \in 1..Len(d) : SelRoleButton(d, n) /\ d[n].svg

RoleNavigationPass(R, d, f) ==
    [R EXCEPT !.components.lists =
                  @ \o TruthyOnly(ClassNames(d, f, querySelectorAll(d, SelRoleNavigation)))]

RoleTablePass(R, d, f, markup) ==
    LET nodes == querySelectorAll(d, SelRoleTable)
    IN  [R EXCEPT
           !.extractedMarkup.tables =
               RoleFold(@, d, f, nodes, 5, 5000,
                        <<"r","o","l","e","-","t","a","b","l","e">>, markup),
           !.tables = @ \o TruthyOnly(ClassNames(d, f, nodes)),
           !.components.tables = @ \o TruthyOnly(ClassNames(d, f, nodes))]

\* `#${idName}`
HashId(id) == ClassStr(<<"#">> \o id)

RECURSIVE HashIds(_, _)
HashIds(d, nodes) ==
    IF nodes = <<>> THEN <<>> ELSE <<HashId(d[Head(nodes)].id)>> \o HashIds(d, Tail(nodes))

SelIdTab(d, n) == IdHas(d, n, <<"t","a","b">>)

\* the id test of the [id*="tab"] pass up to the className tests
IdTabCandidate(d, n) ==
    SelIdTab(d, n) /\ ~includes(d[n].id, <<"t","a","b","l","e">>)

IdTabNodes(d) ==
    SelectSeq(Indices(d), LAMBDA n : IdTabCandidate(d, n) /\ ~IsBigContainer(d[n].cls))

IdTabStep(list, id, html) ==
    IF Len(html) < 1500 THEN CountOrPush(list, HashId(id), html, <<>>) ELSE list

RECURSIVE IdTabFold(_, _, _, _)
IdTabFold(list, d, nodes, markup) ==
    IF nodes = <<>> THEN list
    ELSE IdTabFold(IdTabStep(list, d[Head(nodes)].id, markup[Head(nodes)]),
                   d, Tail(nodes), markup)

IdTabPass(R, d, markup) ==
    [R EXCEPT !.extractedMarkup.tabs = IdTabFold(@, d, IdTabNodes(d), markup),
              !.components.tabs = @ \o HashIds(d, IdTabNodes(d))]

\* className.includes on the className object of an SVG element
IdTabThrows(d) == \E n \in 1..Len(d) : IdTabCandidate(d, n) /\ d[n].svg

\* the body of the forEach of an id pass: the duplicate test looks for the
\* id without '#', the entry is pushed with it
IdStep(list, id, html, limit, cap) ==
    IF Len(list) < limit /\ Len(html) < cap /\ ~ClassesInclude(list, ClassStr(id))
    THEN Append(list, Entry(HashId(id), html, <<>>, 0))
    ELSE list

RECURSIVE IdFold(_, _, _, _, _, _)
\* the id passes for modals, accordions, paginations and forms
IdFold(list, d, nodes, limit, cap, markup) ==
    IF nodes = <<>> THEN list
    ELSE IdFold(IdStep(list, d[Head(nodes)].id, markup[Head(nodes)], limit, cap),
                d, Tail(nodes), limit, cap, markup)

SelIdModal(d, n) ==
    \/ IdHas(d, n, <<"m","o","d","a","l">>)
    \/ IdHas(d, n, <<"p","o","p","u","p">>)
    \/ IdHas(d, n, <<"l","a","y","e","r">>)
    \/ IdHas(d, n, <<"d","i","a","l","o","g">>)

SelIdAccordion(d, n) ==
    \/ IdHas(d, n, <<"a","c","c","o","r","d","i","o","n">>)
    \/ IdHas(d, n, <<"c","o","l","l","a","p","s","e">>)
    \/ IdHas(d, n, <<"t","o","g","g","l","e">>)
    \/ IdHas(d, n, <<"f","a","q">>)

SelIdPagination(d, n) ==
    \/ IdHas(d, n, <<"p","a","g","i","n","g">>)
    \/ IdHas(d, n, <<"p","a","g","i","n","a","t","i","o","n">>)
    \/ IdHas(d, n, <<"p","a","g","e","-","n","a","v">>)

SelIdForm(d, n) ==
    \/ (HasTag(d, n, <<"f","o","r","m">>) /\ d[n].id # <<>>)
    \/ IdHas(d, n, <<"f","o","r","m">>)
    \/ IdHas(d, n, <<"s","e","a","r","c","h">>)

IdPasses(R, d, markup) ==
    LET modals == querySelectorAll(d, SelIdModal)
        accordions == querySelectorAll(d, SelIdAccordion)
        paginations == querySelectorAll(d, SelIdPagination)
        forms == querySelectorAll(d, SelIdForm)
    IN  [R EXCEPT
           !.extractedMarkup.modals = IdFold(@, d, modals, 3, 5000, markup),
           !.modals = @ \o HashIds(d, modals),
           !.components.modals = @ \o HashIds(d, modals),
           !.extractedMarkup.accordions = IdFold(@, d, accordions, 3, 5000, markup),
           !.components.accordions = @ \o HashIds(d, accordions),
           !.extractedMarkup.paginations = IdFold(@, d, paginations, 2, 3000, markup),
           !.components.pagination = @ \o HashIds(d, paginations),
           !.extractedMarkup.forms = IdFold(@, d, forms, 5, 3000, markup),
           !.components.forms = @ \o HashIds(d, forms)]

\* the k-th step of extractComponents, in source order
Pass(k, R, d, f, markup) ==
    CASE k = 1  -> ButtonsPass(R, d, f, markup)
      [] k = 2  -> FormsPass(R, d, f, markup)
      [] k = 3  -> TablesPass(R, d, f, markup)
      [] k = 4  -> SimplePasses(R, d, f, markup)
      [] k = 5  -> TabsPass(R, d, f, markup)
      [] k = 6  -> PaginationsPass(R, d, f, markup)
      [] k = 7  -> ModalsPass(R, d, f, markup)
      [] k = 8  -> BadgesAccordionsPass(R, d, f, markup)
      [] k = 9  -> TypographyIconsPass(R, d)
      [] k = 10 -> RoleListPass(R, d, f, markup)
      [] k = 11 -> RoleTablistPass(R, d, f)
      [] k = 12 -> RoleDialogPass(R, d, f, markup)
      [] k = 13 -> RoleButtonPass(R, d, f, markup)
      [] k = 14 -> RoleNavigationPass(R, d, f)
      [] k = 15 -> RoleTablePass(R, d, f, markup)
      [] k = 16 -> IdTabPass(R, d, markup)
      [] k = 17 -> IdPasses(R, d, markup)

RECURSIVE Passes(_, _, _, _, _)
\* the first k steps
Passes(k, R, d, f, markup) ==
    IF k = 0 THEN R ELSE Pass(k, Passes(k - 1, R, d, f, markup), d, f, markup)

\* extractComponents(doc, result) when no step raises
extractComponents(R, d, f, store) == Passes(17, R, d, f, Sanitized(d, store))

\* extractComponents raises a TypeError on this document
ExtractThrows(d) ==
    \/ ButtonsThrows(d)
    \/ TabsThrows(d)
    \/ PaginationsThrows(d)
    \/ RoleButtonThrows(d)
    \/ IdTabThrows(d)

----------------------------------------------------------------------------
(* Token extractor: src/lib/analyzer.ts, the CSS half of analyzeFiles *)

Digits == {"0","1","2","3","4","5","6","7","8","9"}

HexDigits == Digits \cup {"a","b","c","d","e","f","A","B","C","D","E","F"}

\* [\w-]
NameChars == DOMAIN UpperToLower \cup {UpperToLower[c] : c \in DOMAIN UpperToLower}
                 \cup Digits \cup {"_", "-"}

RECURSIVE RunEnd(_, _, _)
\* last index of the run of characters of S that starts at i (i - 1 if none)
RunEnd(s, i, S) ==
    IF i <= Len(s) /\ s[i] \in S THEN RunEnd(s, i + 1, S) ELSE i - 1

\* name\([^)]+\) at position i
FuncColorEnd(s, i, open) ==
    IF ~At(s, i, open) THEN 0
    ELSE LET close == FirstChar(s, i + Len(open), ")")
         IN  IF close > i + Len(open) THEN close ELSE 0

\* /#[0-9a-fA-F]{3,8}|rgb\([^)]+\)|rgba\([^)]+\)|hsl\([^)]+\)/ at position i
ColorMatchEnd(s, i) ==
    LET hexEnd == RunEnd(s, i + 1, HexDigits)
        rgb  == FuncColorEnd(s, i, <<"r","g","b","(">>)
        rgba == FuncColorEnd(s, i, <<"r","g","b","a","(">>)
        hsl  == FuncColorEnd(s, i, <<"h","s","l","(">>)
    IN  IF At(s, i, <<"#">>) /\ hexEnd - i >= 3
        THEN (IF hexEnd - i > 8 THEN i + 8 ELSE hexEnd)
        ELSE IF rgb # 0 THEN rgb
        ELSE IF rgba # 0 THEN rgba
        ELSE hsl

RECURSIVE ColorsFrom(_, _)
\* content.match(colorRegex) || []
ColorsFrom(s, i) ==
    LET starts == {j \in i..Len(s) : ColorMatchEnd(s, j) # 0}
    IN  IF starts = {} THEN <<>>
        ELSE <<SubSeq(s, MinOf(starts), ColorMatchEnd(s, MinOf(starts)))>>
                \o ColorsFrom(s, ColorMatchEnd(s, MinOf(starts)) + 1)

\* /--([\w-]+)\s*:\s*([^;]+);/ at position i: the match as
\* [end, name, value] with name and value trimmed, end = 0 when no match
VarMatch(s, i) ==
    LET nameEnd == RunEnd(s, i + 2, NameChars)
        colon == RunEnd(s, nameEnd + 1, Whitespace) + 1
        semi == FirstChar(s, colon + 1, ";")
    IN  IF /\ At(s, i, <<"-","-">>)
           /\ nameEnd >= i + 2
           /\ colon <= Len(s) /\ s[colon] = ":"
           /\ semi > colon + 1
        THEN [end |-> semi, name |-> trim(SubSeq(s, i + 2, nameEnd)),
              value |-> trim(SubSeq(s, colon + 1, semi - 1))]
        ELSE [end |-> 0, name |-> <<>>, value |-> <<>>]

\* a classification that tests the colour words of the name with the value
\* and the sizes before the fonts
CategoryByName(name, value) ==
    IF \/ startsWith(value, <<"#">>)
       \/ startsWith(value, <<"r","g","b">>)
       \/ startsWith(value, <<"h","s","l">>)
       \/ includes(name, <<"c","o","l","o","r">>)
       \/ includes(name, <<"g","r","a","y">>)
    THEN "color"
    ELSE IF \/ includes(value, <<"r","e","m">>)
            \/ includes(value, <<"p","x">>)
            \/ includes(value, <<"e","m">>)
            \/ includes(name, <<"s","i","z","e">>)
            \/ includes(name, <<"h","e","i","g","h","t">>)
            \/ includes(name, <<"w","i","d","t","h">>)
            \/ includes(name, <<"s","p","a","c","e">>)
            \/ includes(name, <<"i","n","n","e","r">>)
    THEN "size"
    ELSE IF \/ includes(name, <<"f","o","n","t">>)
            \/ includes(name, <<"l","e","t","t","e","r">>)
    THEN "font"
    ELSE "other"

\* the category of a custom property, by ordered precedence
Category(name, value) ==
    IF \/ startsWith(value, <<"#">>)
       \/ startsWith(value, <<"r","g","b">>)
       \/ startsWith(value, <<"h","s","l">>)
    THEN "color"
    ELSE IF \/ includes(name, <<"f","o","n","t">>)
            \/ includes(name, <<"l","e","t","t","e","r">>)
            \/ includes(name, <<"f","a","m","i","l","y">>)
    THEN "font"
    ELSE IF \/ includes(value, <<"r","e","m">>)
            \/ includes(value, <<"p","x">>)
            \/ includes(value, <<"e","m">>)
            \/ includes(name, <<"s","i","z","e">>)
            \/ includes(name, <<"h","e","i","g","h","t">>)
            \/ includes(name, <<"w","i","d","t","h">>)
            \/ includes(name, <<"s","p","a","c","e">>)
            \/ includes(name, <<"i","n","n","e","r">>)
    THEN "size"
    ELSE "other"

\* a push that overwrites the value of an entry already listed
AddVariableLastWins(cssVariables, name, value) ==
    IF \E k \in 1..Len(cssVariables) : cssVariables[k].name = name
    THEN [k \in 1..Len(cssVariables) |->
            IF cssVariables[k].name = name
            THEN [cssVariables[k] EXCEPT !.value = value]
            ELSE cssVariables[k]]
    ELSE Append(cssVariables,
                [name |-> name, value |-> value, category |-> Category(name, value)])

\* the duplicate check and push for one match of the custom property scan
AddVariable(cssVariables, name, value) ==
    IF \E k \in 1..Len(cssVariables) : cssVariables[k].name = name
    THEN cssVariables
    ELSE Append(cssVariables,
                [name |-> name, value |-> value, category |-> Category(name, value)])

RECURSIVE VariablesFrom(_, _, _)
\* the while loop over cssVarRegex.exec(file.content)
VariablesFrom(cssVariables, s, i) ==
    LET starts == {j \in i..Len(s) : VarMatch(s, j).end # 0}
    IN  IF starts = {} THEN cssVariables
        ELSE LET m == VarMatch(s, MinOf(starts))
             IN  VariablesFrom(AddVariable(cssVariables, m.name, m.value), s, m.end + 1)

analyzeCss(R, text) ==
    [R EXCEPT !.colors = SetAddAll(@, ColorsFrom(text, 1)),
              !.cssVariables = VariablesFrom(@, text, 1)]

----------------------------------------------------------------------------
(* The HTML half of analyzeFiles, the final sort and categorizeComponents *)

RECURSIVE ClassParts(_, _)
\* the trimmed non-empty parts of the class attributes of nodes
ClassParts(d, nodes) ==
    IF nodes = <<>> THEN <<>>
    ELSE LET parts == split(d[Head(nodes)].cls, " ")
             kept == SelectSeq([k \in 1..Len(parts) |-> trim(parts[k])],
                               LAMBDA c : c # <<>>)
         IN  kept \o ClassParts(d, Tail(nodes))

HasClassAttr(d, n) == d[n].cls # <<>>
HasIdAttr(d, n) == d[n].id # <<>>

RECURSIVE FaviconsFold(_, _)
\* link[rel*="icon"] with an href, unique by href
FaviconsFold(favicons, links) ==
    IF links = <<>> THEN favicons
    ELSE LET l == Head(links)
             next == IF /\ includes(l.rel, <<"i","c","o","n">>)
                        /\ l.href # <<>>
                        /\ ~\E k \in 1..Len(favicons) : favicons[k].href = l.href
                     THEN Append(favicons, l) ELSE favicons
         IN  FaviconsFold(next, Tail(links))

RECURSIVE OgFold(_, _)
\* meta[property^="og:"] with property and content, unique by property
OgFold(ogTags, metas) ==
    IF metas = <<>> THEN ogTags
    ELSE LET m == Head(metas)
             next == IF /\ startsWith(m.property, <<"o","g",":">>)
                        /\ m.content # <<>>
                        /\ ~\E k \in 1..Len(ogTags) : ogTags[k].property = m.property
                     THEN Append(ogTags, m) ELSE ogTags
         IN  OgFold(next, Tail(metas))

\* the forEach body of the HTML half for one file whose extraction does not raise
analyzeHtml(R, file, f, store) ==
    LET d == file.nodes
        r0 == [R EXCEPT
                 !.classes = SetAddAll(@, ClassParts(d, querySelectorAll(d, HasClassAttr))),
                 !.ids = SetAddAll(@, [k \in 1..Len(querySelectorAll(d, HasIdAttr)) |->
                                          d[querySelectorAll(d, HasIdAttr)[k]].id]),
                 !.tags = SetAddAll(@, <<<<"h","t","m","l">>, <<"h","e","a","d">>,
                                         <<"b","o","d","y">>>>
                                       \o [k \in 1..Len(file.links) |-> <<"l","i","n","k">>]
                                       \o [k \in 1..Len(file.metas) |-> <<"m","e","t","a">>]
                                       \o [k \in 1..Len(d) |-> toLowerCase(d[k].tag)]),
                 !.favicons = FaviconsFold(@, file.links),
                 !.ogTags = OgFold(@, file.metas)]
        r1 == [r0 EXCEPT !.hasFavicon = @ \/ Len(r0.favicons) > 0,
                         !.hasOG = @ \/ Len(r0.ogTags) > 0]
    IN  extractComponents(r1, d, f, store)

RECURSIVE InsertByCount(_, _)
\* e is placed behind every entry whose count is not smaller
InsertByCount(sorted, e) ==
    IF sorted = <<>> THEN <<e>>
    ELSE IF Head(sorted).count >= e.count
    THEN <<Head(sorted)>> \o InsertByCount(Tail(sorted), e)
    ELSE <<e>> \o sorted

RECURSIVE SortFrom(_, _)
SortFrom(sorted, rest) ==
    IF rest = <<>> THEN sorted
    ELSE SortFrom(InsertByCount(sorted, Head(rest)), Tail(rest))

\* list.sort((a, b) => (b.count || 0) - (a.count || 0)), a stable sort
sortByCount(list) == SortFrom(<<>>, list)

Categories ==
    { "buttons", "forms", "tables", "boxes", "helperBoxes", "lists", "stepLists",
      "breadcrumbs", "menus", "leftMenus", "tabs", "paginations", "modals",
      "badges", "accordions" }

sortAll(R) ==
    [R EXCEPT !.typographyInfo = sortByCount(@),
              !.extractedMarkup = [c \in Categories |-> sortByCount(@[c])]]

isSliderClass(c) == HasSliderWord(c)

AnyOf(c, words) == \E w \in words : includes(c, w)

Wrap(strs) == [k \in 1..Len(strs) |-> ClassStr(strs[k])]

\* a categorizeComponents that keeps what the passes pushed into lists
categorizeComponentsKeeping(R) ==
    LET classes == R.classes
        ids == [k \in 1..Len(R.ids) |-> <<"#">> \o R.ids[k]]
        allIdentifiers == classes \o ids
        Pick(list, words) == Wrap(SelectSeq(list, LAMBDA c : AnyOf(c, words)))
    IN  [R EXCEPT !.components =
          [ buttons |-> Wrap(SelectSeq(classes, LAMBDA c :
                            /\ AnyOf(c, {<<"b","t","n">>, <<"b","u","t","t","o","n">>})
                            /\ ~isSliderClass(c))),
            forms |-> Pick(allIdentifiers, {<<"f","o","r","m">>, <<"i","n","p","u","t">>,
                              <<"s","e","l","e","c","t">>, <<"s","e","a","r","c","h">>}),
            tables |-> Pick(classes, {<<"t","a","b","l","e">>, <<"t","b","l">>}),
            boxes |-> Pick(classes, {<<"b","o","x">>, <<"c","a","r","d">>}),
            lists |-> R.components.lists \o Pick(allIdentifiers, {<<"l","i","s","t">>}),
            modals |-> Pick(allIdentifiers, {<<"m","o","d","a","l">>, <<"p","o","p","u","p">>,
                              <<"l","a","y","e","r">>, <<"d","i","a","l","o","g">>}),
            tabs |-> Wrap(SelectSeq(allIdentifiers, LAMBDA c :
                            /\ includes(c, <<"t","a","b">>)
                            /\ ~includes(c, <<"t","a","b","l","e">>))),
            pagination |-> Pick(allIdentifiers, {<<"p","a","g","e">>, <<"p","a","g","i","n","g">>}),
            typography |-> Wrap([k \in 1..Len(R.typographyInfo) |->
                                    R.typographyInfo[k].className]),
            badges |-> Pick(classes, {<<"b","a","d","g","e">>, <<"t","a","g">>,
                              <<"s","t","a","t","e">>, <<"s","t","a","t","u","s">>}),
            accordions |-> Pick(allIdentifiers, {<<"a","c","c","o","r","d","i","o","n">>,
                              <<"c","o","l","l","a","p","s","e">>, <<"t","o","g","g","l","e">>,
                              <<"a","c","o">>, <<"f","a","q">>}) ]]

\* categorizeComponents: every bucket is rebuilt from classes, ids and
\* typographyInfo
categorizeComponents(R) ==
    LET classes == R.classes
        ids == [k \in 1..Len(R.ids) |-> <<"#">> \o R.ids[k]]
        allIdentifiers == classes \o ids
        Pick(list, words) == Wrap(SelectSeq(list, LAMBDA c : AnyOf(c, words)))
    IN  [R EXCEPT !.components =
          [ buttons |-> Wrap(SelectSeq(classes, LAMBDA c :
                            /\ AnyOf(c, {<<"b","t","n">>, <<"b","u","t","t","o","n">>})
                            /\ ~isSliderClass(c))),
            forms |-> Pick(allIdentifiers, {<<"f","o","r","m">>, <<"i","n","p","u","t">>,
                              <<"s","e","l","e","c","t">>, <<"s","e","a","r","c","h">>}),
            tables |-> Pick(classes, {<<"t","a","b","l","e">>, <<"t","b","l">>}),
            boxes |-> Pick(classes, {<<"b","o","x">>, <<"c","a","r","d">>}),
            lists |-> Pick(allIdentifiers, {<<"l","i","s","t">>}),
            modals |-> Pick(allIdentifiers, {<<"m","o","d","a","l">>, <<"p","o","p","u","p">>,
                              <<"l","a","y","e","r">>, <<"d","i","a","l","o","g">>}),
            tabs |-> Wrap(SelectSeq(allIdentifiers, LAMBDA c :
                            /\ includes(c, <<"t","a","b">>)
                            /\ ~includes(c, <<"t","a","b","l","e">>))),
            pagination |-> Pick(allIdentifiers, {<<"p","a","g","e">>, <<"p","a","g","i","n","g">>}),
            typography |-> Wrap([k \in 1..Len(R.typographyInfo) |->
                                    R.typographyInfo[k].className]),
            badges |-> Pick(classes, {<<"b","a","d","g","e">>, <<"t","a","g">>,
                              <<"s","t","a","t","e">>, <<"s","t","a","t","u","s">>}),
            accordions |-> Pick(allIdentifiers, {<<"a","c","c","o","r","d","i","o","n">>,
                              <<"c","o","l","l","a","p","s","e">>, <<"t","o","g","g","l","e">>,
                              <<"a","c","o">>, <<"f","a","q">>}) ]]

EmptyResult ==
    [ htmlFiles |-> 0, cssFiles |-> 0, jsFiles |-> 0, imageFiles |-> 0,
      classes |-> <<>>, ids |-> <<>>, tags |-> <<>>, colors |-> <<>>,
      cssVariables |-> <<>>, buttons |-> <<>>, inputs |-> <<>>, tables |-> <<>>,
      modals |-> <<>>, icons |-> <<>>,
      components |-> [ buttons |-> <<>>, forms |-> <<>>, tables |-> <<>>, boxes |-> <<>>,
                       lists |-> <<>>, modals |-> <<>>, tabs |-> <<>>, pagination |-> <<>>,
                       typography |-> <<>>, badges |-> <<>>, accordions |-> <<>> ],
      extractedMarkup |-> [c \in Categories |-> <<>>],
      hasFavicon |-> FALSE, hasOG |-> FALSE, favicons |-> <<>>, ogTags |-> <<>>,
      typographyInfo |-> <<>> ]

----------------------------------------------------------------------------
(* analyzeFiles as a state machine: the files of the call are taken one at
   a time, the documents first and the stylesheets after them, as the two
   filter().forEach() loops do; Finish is the sort, categorizeComponents
   and the return *)

\* the parsed documents of the input catalog; document k is the tree of
\*    1  <button class="btn-primary">Go</button><span class="badge-new">New</span>
\*    2  <div class="box"><a class="btn-primary">Go</a></div>
\*    3  <svg class="btn-primary"></svg>
\*    4  <div class="swiper-button-next"><button>Go</button></div>
\*    5  <div class="swiper"><a class="btn-next" role="button">Go</a></div>
\*    6  <a class="btn-next">Go</a>
\*    7  <div class="table-wrap"><table class="tbl"></table></div>
\*    8  <div class="tbl-wrap"><div class="table-wrap"><table></table></div></div>
\*    9  <ul role="list"></ul>
\*   10  <div id="modal1"></div>
\*   11  <main><h2 class="sub-title">Go</h2></main>
\*   12  <nav class="pager"><ul class="paging"></ul></nav>
\*   13  <div class="form-group search-tab"><i class="ico-faq"></i></div>
\*   14  <nav id="paging" class="pager-wrap"><div class="pager"><ul class="paging"></ul></div></nav>
\*   15  <span class="go" role="button">Go</span><ul class="gnb" role="list"></ul>
\*   16  <button class="go">Go</button>
HtmlDocs ==
    << << Node(<<"b","u","t","t","o","n">>, FALSE, <<"b","t","n","-","p","r","i","m","a","r","y">>, <<>>, <<>>, <<"G","o">>, 0),
          Node(<<"s","p","a","n">>, FALSE, <<"b","a","d","g","e","-","n","e","w">>, <<>>, <<>>, <<"N","e","w">>, 0) >>,
       << Node(<<"d","i","v">>, FALSE, <<"b","o","x">>, <<>>, <<>>, <<>>, 0),
          Node(<<"a">>, FALSE, <<"b","t","n","-","p","r","i","m","a","r","y">>, <<>>, <<>>, <<"G","o">>, 1) >>,
       << Node(<<"s","v","g">>, TRUE, <<"b","t","n","-","p","r","i","m","a","r","y">>, <<>>, <<>>, <<>>, 0) >>,
       << Node(<<"d","i","v">>, FALSE, <<"s","w","i","p","e","r","-","b","u","t","t","o","n","-","n","e","x","t">>, <<>>, <<>>, <<>>, 0),
          Node(<<"b","u","t","t","o","n">>, FALSE, <<>>, <<>>, <<>>, <<"G","o">>, 1) >>,
       << Node(<<"d","i","v">>, FALSE, <<"s","w","i","p","e","r">>, <<>>, <<>>, <<>>, 0),
          Node(<<"a">>, FALSE, <<"b","t","n","-","n","e","x","t">>, <<>>, <<"b","u","t","t","o","n">>, <<"G","o">>, 1) >>,
       << Node(<<"a">>, FALSE, <<"b","t","n","-","n","e","x","t">>, <<>>, <<>>, <<"G","o">>, 0) >>,
       << Node(<<"d","i","v">>, FALSE, <<"t","a","b","l","e","-","w","r","a","p">>, <<>>, <<>>, <<>>, 0),
          Node(<<"t","a","b","l","e">>, FALSE, <<"t","b","l">>, <<>>, <<>>, <<>>, 1) >>,
       << Node(<<"d","i","v">>, FALSE, <<"t","b","l","-","w","r","a","p">>, <<>>, <<>>, <<>>, 0),
          Node(<<"d","i","v">>, FALSE, <<"t","a","b","l","e","-","w","r","a","p">>, <<>>, <<>>, <<>>, 1),
          Node(<<"t","a","b","l","e">>, FALSE, <<>>, <<>>, <<>>, <<>>, 2) >>,
       << Node(<<"u","l">>, FALSE, <<>>, <<>>, <<"l","i","s","t">>, <<>>, 0) >>,
       << Node(<<"d","i","v">>, FALSE, <<>>, <<"m","o","d","a","l","1">>, <<>>, <<>>, 0) >>,
       << Node(<<"m","a","i","n">>, FALSE, <<>>, <<>>, <<>>, <<>>, 0),
          Node(<<"h","2">>, FALSE, <<"s","u","b","-","t","i","t","l","e">>, <<>>, <<>>, <<"G","o">>, 1) >>,
       << Node(<<"n","a","v">>, FALSE, <<"p","a","g","e","r">>, <<>>, <<>>, <<>>, 0),
          Node(<<"u","l">>, FALSE, <<"p","a","g","i","n","g">>, <<>>, <<>>, <<>>, 1) >>,
       << Node(<<"d","i","v">>, FALSE, <<"f","o","r","m","-","g","r","o","u","p"," ","s","e","a","r","c","h","-","t","a","b">>, <<>>, <<>>, <<>>, 0),
          Node(<<"i">>, FALSE, <<"i","c","o","-","f","a","q">>, <<>>, <<>>, <<>>, 1) >>,
       << Node(<<"n","a","v">>, FALSE, <<"p","a","g","e","r","-","w","r","a","p">>, <<"p","a","g","i","n","g">>, <<>>, <<>>, 0),
          Node(<<"d","i","v">>, FALSE, <<"p","a","g","e","r">>, <<>>, <<>>, <<>>, 1),
          Node(<<"u","l">>, FALSE, <<"p","a","g","i","n","g">>, <<>>, <<>>, <<>>, 2) >>,
       << Node(<<"s","p","a","n">>, FALSE, <<"g","o">>, <<>>, <<"b","u","t","t","o","n">>, <<"G","o">>, 0),
          Node(<<"u","l">>, FALSE, <<"g","n","b">>, <<>>, <<"l","i","s","t">>, <<>>, 0) >>,
       << Node(<<"b","u","t","t","o","n">>, FALSE, <<"g","o">>, <<>>, <<>>, <<"G","o">>, 0) >> >>

\* the stylesheets of the input catalog
CssSheets ==
    << <<"-","-","p","r","i","m","a","r","y",":","#","1","1","1",";">>,
       <<"-","-","p","r","i","m","a","r","y",":"," ","#","2","2","2",";">>,
       <<"-","-","p","r","i","m","a","r","y",":","#","1","1","1",";","-","-","p","r","i","m","a","r","y",":"," ","#","2","2","2",";">>,
       <<"-","-","p","r","i","m","a","r","y",":"," ","#","2","2","2",";","-","-","p","r","i","m","a","r","y",":","#","1","1","1",";">>,
       <<"-","-","f","o","n","t","-","s","i","z","e",":"," ","1","6","p","x",";">>,
       <<".","a","{","c","o","l","o","r",":","#","f","f","f","}">>,
       <<"-","-","g","a","p"," ",":","1"," ",";","-","-","g","a","p",":","2",";">>,
       <<"-","-","b","g","-","c","o","l","o","r",":","n","o","n","e",";","-","-","l","i","n","e","-","h","e","i","g","h","t",":","1",";","-","-","f","o","n","t","-","c","o","l","o","r",":","r","g","b","(","0",",","0",",","0",")",";","-","-","g","r","a","y",":","2","p","x",";">> >>

\* the head of document 11 carries an icon link and an og:title meta tag
HtmlFile(k) ==
    [ type |-> "html", nodes |-> HtmlDocs[k],
      links |-> IF k = 11 THEN << [rel |-> <<"i","c","o","n">>, href |-> <<"f",".","i","c","o">>] >>
                ELSE <<>>,
      metas |-> IF k = 11 THEN << [property |-> <<"o","g",":","t","i","t","l","e">>,
                                   content |-> <<"G","o">>] >>
                ELSE <<>>,
      text |-> <<>> ]

CssFile(k) ==
    [type |-> "css", nodes |-> <<>>, links |-> <<>>, metas |-> <<>>, text |-> CssSheets[k]]

JsFile == [type |-> "js", nodes |-> <<>>, links |-> <<>>, metas |-> <<>>, text |-> <<>>]

MaxFiles == 2

AnalyzerIdle ==
    /\ files = <<>>
    /\ result = EmptyResult
    /\ pc = "idle"

SanitizerIdle ==
    /\ frag = <<>>
    /\ once = <<>>
    /\ twice = <<>>
    /\ cpc = "idle"

BuilderIdle ==
    /\ inputs = <<>>
    /\ codeBlockId = 0
    /\ today = 0
    /\ outs = <<>>

NoCall == [op |-> "none", arg |-> <<>>, ret |-> Null]

StoreIdle ==
    /\ stored = <<>>
    /\ lookup = NoCall
    /\ session = [clears |-> 0, deleted |-> FALSE]

NoResponse == [status |-> 0, html |-> <<>>, css |-> <<>>]

ErrorResponse(status) == [status |-> status, html |-> <<>>, css |-> <<>>]

\* the url member of the request body: absent, or a string
NoUrl == [present |-> FALSE, value |-> <<>>]

Url(s) == [present |-> TRUE, value |-> s]

CrawlIdle ==
    [phase |-> "idle", body |-> NoUrl, url |-> <<>>, baseUrl |-> <<>>, currentHost |-> <<>>,
     htmlPages |-> <<>>, selected |-> <<>>, results |-> <<>>, calls |-> <<>>,
     cssContents |-> <<>>, fetchedCssUrls |-> {}, log |-> <<>>, errors |-> 0,
     ahead |-> FALSE,
     response |-> NoResponse]

CrawlerIdle == crawl = CrawlIdle

Init ==
    /\ imageStore = EmptyStore
    /\ files = <<>>
    /\ result = EmptyResult
    /\ pc = "html"
    /\ SanitizerIdle
    /\ BuilderIdle
    /\ StoreIdle
    /\ CrawlerIdle

\* one turn of the first forEach; an exception thrown by extractComponents
\* leaves analyzeFiles without a result
AnalyzeHtml(k) ==
    /\ pc = "html"
    /\ Len(files) < MaxFiles
    /\ files' = Append(files, HtmlFile(k))
    /\ IF ExtractThrows(HtmlDocs[k])
       THEN /\ pc' = "raised"
            /\ result' = result
       ELSE /\ pc' = "html"
            /\ result' = [analyzeHtml(result, HtmlFile(k), Len(files) + 1, imageStore)
                             EXCEPT !.htmlFiles = @ + 1]
    /\ UNCHANGED <<imageStore, storeVars, crawlVars, sanitizerVars, builderVars>>

\* a script file is only counted
CountJs ==
    /\ pc = "html"
    /\ Len(files) < MaxFiles
    /\ files' = Append(files, JsFile)
    /\ result' = [result EXCEPT !.jsFiles = @ + 1]
    /\ UNCHANGED <<imageStore, storeVars, crawlVars, sanitizerVars, builderVars, pc>>

\* one turn of the second forEach
AnalyzeCss(k) ==
    /\ pc \in {"html", "css"}
    /\ Len(files) < MaxFiles
    /\ files' = Append(files, CssFile(k))
    /\ result' = [analyzeCss(result, CssSheets[k]) EXCEPT !.cssFiles = @ + 1]
    /\ pc' = "css"
    /\ UNCHANGED <<imageStore, storeVars, crawlVars, sanitizerVars, builderVars>>

Finish ==
    /\ pc \in {"html", "css"}
    /\ result' = categorizeComponents(sortAll(result))
    /\ pc' = "done"
    /\ UNCHANGED <<imageStore, storeVars, crawlVars, sanitizerVars, builderVars, files>>

Next ==
    \/ \E k \in 1..Len(HtmlDocs) : AnalyzeHtml(k)
    \/ CountJs
    \/ \E k \in 1..Len(CssSheets) : AnalyzeCss(k)
    \/ Finish

Spec == Init /\ [][Next]_vars

----------------------------------------------------------------------------
(* Properties of analyzeFiles *)

BtnPrimary == <<"b","t","n","-","p","r","i","m","a","r","y">>

RECURSIVE SliderAbove(_, _)
\* some ancestor of the element carries a slider-library class
SliderAbove(d, p) ==
    IF p = 0 THEN FALSE
    ELSE HasSliderWord(d[p].cls) \/ SliderAbove(d, d[p].parent)

\* the element or one of its ancestors carries a slider-library class
SliderElement(d, n) == HasSliderWord(d[n].cls) \/ SliderAbove(d, d[n].parent)

HtmlFilesDone == {k \in 1..Len(files) : files[k].type = "html"}

\* the entry e carries the key and the sanitized markup of element n of d
CapturedFrom(e, d, n) ==
    /\ e.classes = ClassStr(d[n].cls)
    /\ e.html = cleanMarkup(outerHTML(d, n), EmptyStore)

\* C1: once analyzeFiles has returned, no category of extractedMarkup holds
\* two entries with the same selector key
C1_UniqueKeys ==
    pc = "done" =>
        \A c \in Categories :
            \A i, j \in 1..Len(result.extractedMarkup[c]) :
                i # j => result.extractedMarkup[c][i].classes
                            # result.extractedMarkup[c][j].classes

\* a document with exactly one element of class btn-primary, not slider-related
OneBtnPrimary(file) ==
    /\ file.type = "html"
    /\ Cardinality({n \in 1..Len(file.nodes) : file.nodes[n].cls = BtnPrimary}) = 1
    /\ \A n \in 1..Len(file.nodes) :
          file.nodes[n].cls = BtnPrimary => ~SliderElement(file.nodes, n)

BtnPrimaryEntries ==
    {i \in 1..Len(result.extractedMarkup.buttons) :
        result.extractedMarkup.buttons[i].classes.s = BtnPrimary}

\* C2: analysing N >= 1 documents that each hold exactly one btn-primary
\* element returns exactly one buttons entry keyed btn-primary, with count N
C2_CountIsN ==
    (/\ pc \in {"done", "raised"}
     /\ files # <<>>
     /\ \A k \in 1..Len(files) : OneBtnPrimary(files[k]))
    => /\ pc = "done"
       /\ Cardinality(BtnPrimaryEntries) = 1
       /\ \A i \in BtnPrimaryEntries :
             result.extractedMarkup.buttons[i].count = Len(files)

\* C3: no returned buttons entry was captured from an element that carries
\* a slider-library class on itself or on an ancestor
C3_NoSliderButtons ==
    pc = "done" =>
        \A i \in 1..Len(result.extractedMarkup.buttons) :
            LET e == result.extractedMarkup.buttons[i]
                From(slider) ==
                    \E k \in HtmlFilesDone : \E n \in 1..Len(files[k].nodes) :
                        /\ SliderElement(files[k].nodes, n) = slider
                        /\ CapturedFrom(e, files[k].nodes, n)
            IN  From(TRUE) => From(FALSE)

\* the <table> elements of d whose immediate parent is a table-wrap <div>
WrappedTables(d) ==
    {n \in 1..Len(d) :
        /\ SelTable(d, n)
        /\ d[n].parent # 0
        /\ IsHtmlElement(d, d[n].parent, <<"d","i","v">>)
        /\ includes(d[d[n].parent].cls, <<"t","a","b","l","e","-","w","r","a","p">>)}

\* C4: for every <table> whose immediate parent is a table-wrap <div>, the
\* tables entry captured for it holds the sanitized markup of that parent
C4_WrapperCaptured ==
    pc = "done" =>
        \A k \in HtmlFilesDone : \A n \in WrappedTables(files[k].nodes) :
            \E i \in 1..Len(result.extractedMarkup.tables) :
                LET e == result.extractedMarkup.tables[i]
                IN  /\ e.classes = ClassStr(files[k].nodes[files[k].nodes[n].parent].cls)
                    /\ \E k2 \in HtmlFilesDone : \E n2 \in WrappedTables(files[k2].nodes) :
                          CapturedFrom(e, files[k2].nodes, files[k2].nodes[n2].parent)

RECURSIVE DeclsFrom(_, _)
\* the custom property declarations of a stylesheet, in text order
DeclsFrom(s, i) ==
    LET starts == {j \in i..Len(s) : VarMatch(s, j).end # 0}
    IN  IF starts = {} THEN <<>>
        ELSE <<VarMatch(s, MinOf(starts))>>
                \o DeclsFrom(s, VarMatch(s, MinOf(starts)).end + 1)

RECURSIVE DeclsOfFiles(_)
\* the declarations of the stylesheets of fs, in file order
DeclsOfFiles(fs) ==
    IF fs = <<>> THEN <<>>
    ELSE (IF Head(fs).type = "css" THEN DeclsFrom(Head(fs).text, 1) ELSE <<>>)
            \o DeclsOfFiles(Tail(fs))

\* C5: cssVariables is unique by name and first-seen-wins: each declared
\* name has exactly one entry, holding the value and the category of its
\* first declaration in file order, and nothing else is listed
C5_FirstSeenWins ==
    LET decls == DeclsOfFiles(files)
        vs == result.cssVariables
    IN  /\ \A i, j \in 1..Len(vs) : i # j => vs[i].name # vs[j].name
        /\ \A i \in 1..Len(vs) : \E k \in 1..Len(decls) : decls[k].name = vs[i].name
        /\ \A k \in 1..Len(decls) :
              (\A h \in 1..(k - 1) : decls[h].name # decls[k].name)
              => \E i \in 1..Len(vs) :
                    /\ vs[i].name = decls[k].name
                    /\ vs[i].value = decls[k].value
                    /\ vs[i].category = Category(decls[k].name, decls[k].value)

\* a name was declared twice with different values, in one file or in two
C5_Witness ==
    /\ pc = "done"
    /\ \E h, k \in 1..Len(DeclsOfFiles(files)) :
          /\ h < k
          /\ DeclsOfFiles(files)[h].name = DeclsOfFiles(files)[k].name
          /\ DeclsOfFiles(files)[h].value # DeclsOfFiles(files)[k].value
    /\ Len(files) = 2
    /\ Len(result.cssVariables) = 1

\* C10: analyzeFiles never raises
C10_NeverRaises == pc # "raised"

----------------------------------------------------------------------------
(* Sanitizer runs: cleanMarkup applied to a fragment, then to its output *)

MaxChunks == 3

Chunks ==
    { <<"<","s","c","r">>,
      <<"<","s","c","r","i","p","t",">","<","/","s","c","r","i","p","t",">">>,
      <<"i","p","t",">","x","<","/","s","c","r","i","p","t",">">>,
      <<"<","b",">">>,
      <<"<","/","b",">">>,
      <<" ">>,
      <<"\n"," ">>,
      <<" ","o","n","c","l","i","c","k","=","\"","a","\"">>,
      <<"<","a"," ","h","r","e","f","=","\"","u","\"",">">> }

RECURSIVE Concat(_)
Concat(ss) == IF ss = <<>> THEN <<>> ELSE Head(ss) \o Concat(Tail(ss))

Fragments ==
    {Concat(cs) : cs \in UNION {[1..n -> Chunks] : n \in 0..MaxChunks}}

InitClean ==
    /\ imageStore = EmptyStore
    /\ frag \in Fragments
    /\ once = <<>>
    /\ twice = <<>>
    /\ cpc = "raw"
    /\ AnalyzerIdle
    /\ BuilderIdle
    /\ StoreIdle
    /\ CrawlerIdle

CleanOnce ==
    /\ cpc = "raw"
    /\ once' = cleanMarkup(frag, imageStore)
    /\ cpc' = "once"
    /\ UNCHANGED <<imageStore, storeVars, crawlVars, frag, twice, analyzerVars, builderVars>>

CleanTwice ==
    /\ cpc = "once"
    /\ twice' = cleanMarkup(once, imageStore)
    /\ cpc' = "twice"
    /\ UNCHANGED <<imageStore, storeVars, crawlVars, frag, once, analyzerVars, builderVars>>

NextClean == CleanOnce \/ CleanTwice

SpecClean == InitClean /\ [][NextClean]_vars

\* C6: the sanitizer is idempotent: sanitizing its own output changes nothing
C6_Idempotent == cpc = "twice" => twice = once

----------------------------------------------------------------------------
(* Style guide builder: src/lib/builder.ts.  The returned document is kept
   as a record of its parts: the sections in order (element id, display
   number, label classes, samples, code block), the TOC items, the inlined
   stylesheets, the title and the "Generated" day.  The fixed template text
   around those parts is the same in every document and is left out. *)

\* div.textContent = text; div.innerHTML
escapeHtml(text) ==
    Concat([k \in 1..Len(text) |->
              IF text[k] = "&" THEN <<"&","a","m","p",";">>
              ELSE IF text[k] = "<" THEN <<"&","l","t",";">>
              ELSE IF text[k] = ">" THEN <<"&","g","t",";">>
              ELSE <<text[k]>>])

\* a code block whose id is twice the incremented counter
buildCodeBlockDoubling(codeHtml, includeCode, counter) ==
    IF ~includeCode \/ codeHtml = <<>>
    THEN [id |-> 0, pre |-> <<>>, counter |-> counter]
    ELSE [id |-> 2 * (counter + 1), pre |-> escapeHtml(codeHtml),
          counter |-> 2 * (counter + 1)]

\* a code block that takes the next id and leaves the counter where it was
buildCodeBlockReusing(codeHtml, includeCode, counter) ==
    IF ~includeCode \/ codeHtml = <<>>
    THEN [id |-> 0, pre |-> <<>>, counter |-> counter]
    ELSE [id |-> counter + 1, pre |-> escapeHtml(codeHtml), counter |-> counter]

\* the block and the counter after the call; id 0 stands for the empty string
buildCodeBlock(codeHtml, includeCode, counter) ==
    IF ~includeCode \/ codeHtml = <<>>
    THEN [id |-> 0, pre |-> <<>>, counter |-> counter]
    ELSE [id |-> counter + 1, pre |-> escapeHtml(codeHtml), counter |-> counter + 1]

\* the keywords of an additional-classes input
Keywords(input) ==
    LET parts == split(input, ",")
        Strip(c) == IF startsWith(c, <<".">>) THEN Tail(c) ELSE c
        cleaned == [k \in 1..Len(parts) |-> toLowerCase(Strip(trim(parts[k])))]
    IN  SelectSeq(cleaned, LAMBDA c : Len(c) > 0)

RECURSIVE MatchKeywords(_, _, _)
\* keywords.forEach: the classes holding the keyword, each listed once
MatchKeywords(matched, keywords, allClasses) ==
    IF keywords = <<>> THEN matched
    ELSE MatchKeywords(
            SetAddAll(matched,
                      SelectSeq(allClasses,
                                LAMBDA cls : includes(toLowerCase(cls), Head(keywords)))),
            Tail(keywords), allClasses)

parseAdditionalClasses(input, R) ==
    IF input = <<>> THEN <<>> ELSE MatchKeywords(<<>>, Keywords(input), R.classes)

\* Array.prototype.slice(0, n)
slice(xs, n) == SubSeq(xs, 1, IF Len(xs) < n THEN Len(xs) ELSE n)

Unwrap(cvs) == [k \in 1..Len(cvs) |-> cvs[k].s]

\* the builders array: id and check() of each entry, in array order
builders(R, sectionOptions, additionalClasses) ==
    LET Extra(key) == Len(additionalClasses[key]) > 0
    IN  << [id |-> "colors",
            check |-> sectionOptions.colors
                        /\ (Len(R.colors) > 0 \/ Len(R.cssVariables) > 0)],
           [id |-> "typography",
            check |-> sectionOptions.typography
                        /\ (Len(R.components.typography) > 0 \/ Extra("typography"))],
           [id |-> "icons", check |-> sectionOptions.icons /\ Len(R.icons) > 0],
           [id |-> "badges",
            check |-> sectionOptions.badge
                        /\ (\/ Len(R.components.badges) > 0
                            \/ Len(R.extractedMarkup.badges) > 0
                            \/ Extra("badge"))],
           [id |-> "lists",
            check |-> sectionOptions.lists
                        /\ (Len(R.components.lists) > 0 \/ Extra("lists"))],
           [id |-> "tabs",
            check |-> sectionOptions.tabs
                        /\ (Len(R.components.tabs) > 0 \/ Extra("tabs"))],
           [id |-> "tables",
            check |-> sectionOptions.tables /\ (Len(R.tables) > 0 \/ Extra("tables"))],
           [id |-> "buttons",
            check |-> sectionOptions.buttons
                        /\ (Len(R.components.buttons) > 0 \/ Extra("buttons"))],
           [id |-> "forms",
            check |-> sectionOptions.forms
                        /\ (Len(R.components.forms) > 0 \/ Extra("forms"))],
           [id |-> "boxes",
            check |-> sectionOptions.boxes
                        /\ (Len(R.components.boxes) > 0 \/ Extra("boxes"))],
           [id |-> "modal",
            check |-> sectionOptions.modal /\ (Len(R.modals) > 0 \/ Extra("modal"))],
           [id |-> "pagination",
            check |-> sectionOptions.pagination
                        /\ (Len(R.components.pagination) > 0 \/ Extra("pagination"))],
           [id |-> "accordions",
            check |-> sectionOptions.accordion
                        /\ (\/ Len(R.components.accordions) > 0
                            \/ Len(R.extractedMarkup.accordions) > 0
                            \/ Extra("accordion"))],
           [id |-> "favicon",
            check |-> sectionOptions.favicon /\ (R.hasFavicon \/ R.hasOG)] >>

\* sectionExtraClasses[builder.id], the empty string for an id it lacks
sectionExtraClasses(additionalClasses, id) ==
    CASE id = "typography" -> additionalClasses.typography
      [] id = "badges" -> additionalClasses.badge
      [] id = "lists" -> additionalClasses.lists
      [] id = "tables" -> additionalClasses.tables
      [] id = "buttons" -> additionalClasses.buttons
      [] id = "forms" -> additionalClasses.forms
      [] id = "boxes" -> additionalClasses.boxes
      [] id = "modal" -> additionalClasses.modal
      [] id = "pagination" -> additionalClasses.pagination
      [] id = "accordions" -> additionalClasses.accordion
      [] OTHER -> <<>>

RECURSIVE DedupByClasses(_, _)
\* the seenClasses filter: the first entry of each key
DedupByClasses(seen, items) ==
    IF items = <<>> THEN <<>>
    ELSE IF Head(items).classes \in seen THEN DedupByClasses(seen, Tail(items))
    ELSE <<Head(items)>> \o DedupByClasses(seen \cup {Head(items).classes}, Tail(items))

\* what each section builder reads: the label classes and their cap, the
\* extracted entries, whether they pass the seenClasses filter, and how
\* many are shown
SectionParts(id, R) ==
    LET P(classes, cap, items, dedup, take) ==
            [classes |-> classes, cap |-> cap, items |-> items, dedup |-> dedup,
             take |-> take]
        C == R.components
        M == R.extractedMarkup
    IN  CASE id = "buttons" -> P(Unwrap(C.buttons), 20, M.buttons, FALSE, 10)
          [] id = "forms" -> P(Unwrap(C.forms), 20, M.forms, TRUE, 5)
          [] id = "typography" -> P(Unwrap(C.typography), 15, <<>>, FALSE, 0)
          [] id = "boxes" -> P(Unwrap(C.boxes), 15, M.boxes, TRUE, 3)
          [] id = "lists" -> P(Unwrap(C.lists), 15, M.lists, TRUE, 4)
          [] id = "tables" -> P(Unwrap(SelectSeq(R.tables, Truthy)), 10, M.tables, TRUE, 3)
          [] id = "modal" -> P(Unwrap(SelectSeq(R.modals, Truthy)), 10, M.modals, TRUE, 2)
          [] id = "tabs" -> P(Unwrap(C.tabs), 15, M.tabs, TRUE, 3)
          [] id = "pagination" -> P(Unwrap(C.pagination), 15, M.paginations, TRUE, 2)
          [] id = "badges" -> P(Unwrap(C.badges), 20, M.badges, TRUE, 15)
          [] id = "accordions" -> P(Unwrap(C.accordions), 20, M.accordions, TRUE, 3)
          [] OTHER -> P(<<>>, 0, <<>>, FALSE, 0)

\* the listed values of the sections that show no extracted markup: the
\* color variables (the raw colors when there is none), the icon classes,
\* the favicon addresses and the og:image address
ListedValues(id, R) ==
    LET colorVariables == SelectSeq(R.cssVariables, LAMBDA v : v.category = "color")
        ogImage == SelectSeq(R.ogTags, LAMBDA t : t.property = <<"o","g",":","i","m","a","g","e">>)
    IN  CASE id = "colors" ->
                IF Len(colorVariables) > 0
                THEN [k \in 1..Len(colorVariables) |-> colorVariables[k].name]
                ELSE slice(R.colors, 20)
          [] id = "icons" -> slice(R.icons, 30)
          [] id = "favicon" ->
                [k \in 1..Len(R.favicons) |-> escapeHtml(R.favicons[k].href)]
                \o (IF ogImage # <<>> THEN <<escapeHtml(ogImage[1].content)>> ELSE <<>>)
          [] OTHER -> <<>>

\* a sample written from a class name stands as <class>
Made(cs) == [k \in 1..Len(cs) |-> <<"<">> \o cs[k] \o <<">">>]

Htmls(extracted) == [k \in 1..Len(extracted) |-> extracted[k].html]

\* the label classes of a section: [...new Set([...classes, ...extra])] cut
\* to the section's cap
SectionClasses(parts, extraClasses) ==
    slice(SetAddAll(<<>>, parts.classes \o extraClasses), parts.cap)

\* the extracted entries a section shows
SectionExtracted(parts) ==
    slice(IF parts.dedup THEN DedupByClasses({}, parts.items) ELSE parts.items,
          parts.take)

\* the text handed to buildCodeBlock
CodeHtml(id, classes, htmls, extraClasses) ==
    CASE id = "buttons" ->
            IF Len(htmls) > 0
            THEN Join(htmls \o Made(extraClasses), <<"\n","\n">>)
            ELSE Join(Made(classes), <<"\n">>)
      [] id = "typography" -> Join(Made(classes), <<>>)
      [] id \in {"colors", "icons", "favicon"} -> <<>>
      [] OTHER -> Join(htmls, <<"\n","\n">>)

SectionOf(id, n, R, classes, htmls, extraClasses, block) ==
    [ section |-> [ id |-> id, number |-> n, classes |-> classes,
                    samples |-> htmls \o Made(extraClasses) \o ListedValues(id, R),
                    codeId |-> block.id, code |-> block.pre ],
      counter |-> block.counter ]

SectionBlock(id, n, includeCode, R, extraClasses, counter, classes, htmls) ==
    SectionOf(id, n, R, classes, htmls, extraClasses,
              buildCodeBlock(CodeHtml(id, classes, htmls, extraClasses),
                             includeCode, counter))

SectionFrom(id, n, includeCode, R, extraClasses, counter, parts) ==
    SectionBlock(id, n, includeCode, R, extraClasses, counter,
                 SectionClasses(parts, extraClasses), Htmls(SectionExtracted(parts)))

\* one build(id, includeCode, extra) call of the builders array: the section
\* and the code block counter after it
buildSection(id, n, includeCode, R, extraClasses, counter) ==
    SectionFrom(id, n, includeCode, R, extraClasses, counter, SectionParts(id, R))

\* the accumulator after a rendered section: sectionId++, the TOC item, the
\* section and the counter its code block left
BuildPut(acc, id, built) ==
    [ sectionId |-> acc.sectionId + 1,
      tocItems |-> Append(acc.tocItems, id),
      sections |-> Append(acc.sections, built.section),
      counter |-> built.counter ]

\* a forEach body that numbers the skipped builders too
BuildStepNumberingAll(acc, b, R, includeCode, additionalClasses) ==
    IF b.check
    THEN BuildPut(acc, b.id,
                  buildSection(b.id, acc.sectionId + 1, includeCode, R,
                               parseAdditionalClasses(
                                   sectionExtraClasses(additionalClasses, b.id), R),
                               acc.counter))
    ELSE [acc EXCEPT !.sectionId = @ + 1]

\* the body of builders.forEach
BuildStep(acc, b, R, includeCode, additionalClasses) ==
    IF b.check
    THEN BuildPut(acc, b.id,
                  buildSection(b.id, acc.sectionId + 1, includeCode, R,
                               parseAdditionalClasses(
                                   sectionExtraClasses(additionalClasses, b.id), R),
                               acc.counter))
    ELSE acc

RECURSIVE BuildSections(_, _, _, _, _)
BuildSections(acc, bs, R, includeCode, additionalClasses) ==
    IF bs = <<>> THEN acc
    ELSE BuildSections(BuildStep(acc, Head(bs), R, includeCode, additionalClasses),
                       Tail(bs), R, includeCode, additionalClasses)

\* the embedded style sheets: replaceImagePaths of each CSS file's text
EmbeddedCss(cssFiles, store) ==
    [k \in 1..Len(cssFiles) |-> replaceImagePaths(cssFiles[k].text, store)]

\* the document assembled from the rendered sections
Document(acc, fs, styleOptions, projectInfo, store, day) ==
    [ out |-> [ title |-> projectInfo.name,
                version |-> projectInfo.version,
                generated |-> day,
                fontFamily |-> styleOptions.fontFamily,
                css |-> EmbeddedCss(SelectSeq(fs, LAMBDA f : f.type = "css"), store),
                tocOn |-> styleOptions.toc,
                toc |-> IF styleOptions.toc
                        THEN [k \in 1..Len(acc.tocItems) |->
                                [id |-> acc.tocItems[k], number |-> k]]
                        ELSE <<>>,
                sections |-> acc.sections ],
      counter |-> acc.counter ]

\* the returned document and the code block counter after the call
buildStyleGuide(fs, R, sectionOptions, styleOptions, projectInfo, additionalClasses, counter, store, day) ==
    Document(BuildSections([sectionId |-> 0, tocItems |-> <<>>, sections |-> <<>>,
                            counter |-> counter],
                           builders(R, sectionOptions, additionalClasses),
                           R, styleOptions.codeblock, additionalClasses),
             fs, styleOptions, projectInfo, store, day)

----------------------------------------------------------------------------
(* Builder runs: buildStyleGuide is called repeatedly with the same
   arguments while the day may change between the calls *)

RECURSIVE AnalyzeList(_, _, _)
\* the two forEach loops over files that raise nothing.  The count test is
\* false of every R passed here; reading the counts makes the evaluation
\* of one file finish before the next file starts
AnalyzeList(R, fs, k) ==
    IF k > Len(fs) \/ R.htmlFiles + R.cssFiles # k - 1 THEN R
    ELSE AnalyzeList(
            IF fs[k].type = "html"
            THEN [analyzeHtml(R, fs[k], k, EmptyStore) EXCEPT !.htmlFiles = @ + 1]
            ELSE [analyzeCss(R, fs[k].text) EXCEPT !.cssFiles = @ + 1],
            fs, k + 1)

analyzeFiles(fs) == categorizeComponents(sortAll(AnalyzeList(EmptyResult, fs, 1)))

MaxCalls == 2

MaxDay == 2

SectionKeys ==
    { "colors", "typography", "icons", "badge", "lists", "tabs", "tables", "buttons",
      "forms", "boxes", "modal", "pagination", "accordion", "favicon" }

\* every section on, every section off, and each single section off
OptionSets ==
    {[k \in SectionKeys |-> TRUE], [k \in SectionKeys |-> FALSE]}
        \cup {[k \in SectionKeys |-> k # off] : off \in SectionKeys}

AdditionalKeys ==
    { "colors", "typography", "icons", "badge", "lists", "tabs", "tables", "buttons",
      "forms", "boxes", "modal", "pagination", "accordion" }

NoAdditional == [k \in AdditionalKeys |-> <<>>]

\* nothing; a blank badge field; ".BTN, box" for buttons; "btn" for tabs;
\* a lone comma for lists
AdditionalSets ==
    { NoAdditional,
      [NoAdditional EXCEPT !.badge = <<" ">>],
      [NoAdditional EXCEPT !.buttons = <<".","B","T","N",","," ","b","o","x">>],
      [NoAdditional EXCEPT !.tabs = <<"b","t","n">>],
      [NoAdditional EXCEPT !.lists = <<",">>] }

FileLists ==
    { <<>>,
      <<HtmlFile(1)>>,
      <<HtmlFile(1), HtmlFile(2), CssFile(1)>>,
      <<HtmlFile(2), HtmlFile(7), HtmlFile(11), HtmlFile(13), CssFile(3)>>,
      <<HtmlFile(1), HtmlFile(9), HtmlFile(10), HtmlFile(12), CssFile(6)>> }

Analyses == {[files |-> fs, analysisResult |-> analyzeFiles(fs)] : fs \in FileLists}

BuildInputs ==
    { [ files |-> a.files, analysisResult |-> a.analysisResult, sectionOptions |-> so,
        styleOptions |-> [toc |-> toc, codeblock |-> code, fontFamily |-> "pretendard"],
        projectInfo |-> [name |-> "Project", version |-> "1.0.0"],
        additionalClasses |-> ac ] :
      a \in Analyses, so \in OptionSets, toc \in BOOLEAN, code \in BOOLEAN,
      ac \in AdditionalSets }

InitBuild ==
    /\ imageStore = EmptyStore
    /\ inputs \in BuildInputs
    /\ codeBlockId = 0
    /\ today = 1
    /\ outs = <<>>
    /\ AnalyzerIdle
    /\ SanitizerIdle
    /\ StoreIdle
    /\ CrawlerIdle

\* one call of buildStyleGuide; the call leaves the counter where its last
\* code block put it
Build ==
    /\ Len(outs) < MaxCalls
    /\ LET call == buildStyleGuide(inputs.files, inputs.analysisResult,
                                   inputs.sectionOptions, inputs.styleOptions,
                                   inputs.projectInfo, inputs.additionalClasses,
                                   codeBlockId, imageStore, today)
       IN  /\ outs' = Append(outs, [out |-> call.out, day |-> today,
                                    start |-> codeBlockId, store |-> imageStore])
           /\ codeBlockId' = call.counter
    /\ UNCHANGED <<imageStore, storeVars, crawlVars, sanitizerVars, analyzerVars, inputs, today>>

\* midnight passes
DayPasses ==
    /\ today < MaxDay
    /\ today' = today + 1
    /\ UNCHANGED <<imageStore, storeVars, crawlVars, sanitizerVars, analyzerVars, inputs, codeBlockId, outs>>

NextBuild == Build \/ DayPasses

SpecBuild == InitBuild /\ [][NextBuild]_vars

----------------------------------------------------------------------------
(* Properties of buildStyleGuide *)

SectionOrder ==
    << "colors", "typography", "icons", "badges", "lists", "tabs", "tables", "buttons",
       "forms", "boxes", "modal", "pagination", "accordions", "favicon" >>

\* per section id: its sectionOptions flag, whether the analysis fields it
\* draws on are all empty, and the additional-classes input given for it
SectionCase(id) ==
    LET R == inputs.analysisResult
        so == inputs.sectionOptions
        ac == inputs.additionalClasses
        C(flag, empty, input) == [flag |-> flag, empty |-> empty, input |-> input]
    IN  CASE id = "colors" -> C(so.colors, R.colors = <<>> /\ R.cssVariables = <<>>, <<>>)
          [] id = "typography" ->
                C(so.typography, R.components.typography = <<>>, ac.typography)
          [] id = "icons" -> C(so.icons, R.icons = <<>>, <<>>)
          [] id = "badges" ->
                C(so.badge, R.components.badges = <<>> /\ R.extractedMarkup.badges = <<>>,
                  ac.badge)
          [] id = "lists" -> C(so.lists, R.components.lists = <<>>, ac.lists)
          [] id = "tabs" -> C(so.tabs, R.components.tabs = <<>>, ac.tabs)
          [] id = "tables" -> C(so.tables, R.tables = <<>>, ac.tables)
          [] id = "buttons" -> C(so.buttons, R.components.buttons = <<>>, ac.buttons)
          [] id = "forms" -> C(so.forms, R.components.forms = <<>>, ac.forms)
          [] id = "boxes" -> C(so.boxes, R.components.boxes = <<>>, ac.boxes)
          [] id = "modal" -> C(so.modal, R.modals = <<>>, ac.modal)
          [] id = "pagination" ->
                C(so.pagination, R.components.pagination = <<>>, ac.pagination)
          [] id = "accordions" ->
                C(so.accordion,
                  R.components.accordions = <<>> /\ R.extractedMarkup.accordions = <<>>,
                  ac.accordion)
          [] OTHER -> C(so.favicon, ~R.hasFavicon /\ ~R.hasOG, <<>>)

Listed(out, id) ==
    \/ \E k \in 1..Len(out.sections) : out.sections[k].id = id
    \/ \E k \in 1..Len(out.toc) : out.toc[k].id = id

\* C7: a section whose flag is off, or whose analysis fields are empty while
\* no additional-class keyword is supplied for it, appears neither as a
\* section nor in the TOC of a built document
C7_Suppressed ==
    \A c \in 1..Len(outs) : \A k \in 1..Len(SectionOrder) :
        LET cat == SectionCase(SectionOrder[k])
        IN  (~cat.flag \/ (cat.empty /\ Keywords(cat.input) = <<>>))
            => ~Listed(outs[c].out, SectionOrder[k])

PositionOf(id) == CHOOSE k \in 1..Len(SectionOrder) : SectionOrder[k] = id

Rebased(o) ==
    [o.out EXCEPT !.sections =
        [k \in 1..Len(o.out.sections) |->
            [o.out.sections[k] EXCEPT !.codeId = IF @ = 0 THEN 0 ELSE @ - o.start]]]

\* C9: two calls with the same arguments on the same day and with the same
\* image store return documents that differ only in the code block ids,
\* and those only by the counter's starting value
C9_Deterministic ==
    \A a, b \in 1..Len(outs) :
        (outs[a].day = outs[b].day /\ outs[a].store = outs[b].store)
        => Rebased(outs[a]) = Rebased(outs[b])

\* two calls on one day whose documents hold code blocks with other ids
C9_Witness ==
    /\ Len(outs) = 2
    /\ outs[1].day = outs[2].day
    /\ outs[1].out # outs[2].out
    /\ \E k \in 1..Len(outs[1].out.sections) : outs[1].out.sections[k].codeId # 0
    /\ outs[2].start > 0

----------------------------------------------------------------------------
(* Runs of the image store: assets are registered, the store is cleared,  *)
(* paths are looked up and fragments rewritten.  The paths are those of   *)
(* image files: storeImage is called for the archive entries whose        *)
(* extension is an image type, findImageInStore for the paths the two     *)
(* expressions of replaceImagePaths capture.  A data URL is written as    *)
(* one letter.                                                             *)

MaxStores == 2

MaxClears == 1

StorePaths ==
    { <<"a","/","i","c","o","n",".","p","n","g">>,
      <<"b","\\","i","c","o","n",".","p","n","g">> }

StoreData == { <<"A">>, <<"B">> }

\* the forms a reference to a registered path takes in markup: the path, and
\* each of its suffixes on a segment boundary, bare or under ./, ../ and /
LookupForms(path) ==
    {path} \cup
    { pre \o Join(SubSeq(split(Slashed(path), "/"), i, Len(split(Slashed(path), "/"))), <<"/">>) :
        pre \in { <<>>, <<".","/">>, <<".",".","/">>, <<"/">> },
        i \in 1..Len(split(Slashed(path), "/")) }

StoreQueries ==
    UNION { LookupForms(p) : p \in StorePaths } \cup
    { <<"n","o","n","e",".","g","i","f">>, <<"c","/","i","c","o","n",".","p","n","g">> }

StoreContents ==
    { <<"<","i","m","g"," ","s","r","c","=","\"","i","c","o","n",".","p","n","g","\"",">">>,
      <<"<","i","m","g"," ","S","R","C","=","'",".","/","b","/","i","c","o","n",".","p","n","g","'"," ","a","l","t","=","\"","x",".","g","i","f","\"",">">>,
      <<"a","{","b","a","c","k","g","r","o","u","n","d",":","u","r","l","(",".",".","/","a","/","i","c","o","n",".","p","n","g",")","}","b","{","b","a","c","k","g","r","o","u","n","d",":","u","r","l","(","\"","n","o","n","e",".","g","i","f","\"",")","}">>,
      <<"s","r","c","=","\"","i","c","o","n",".","t","x","t","\""," ","u","r","l","(","'","b","/","i","c","o","n",".","p","n","g",")">>,
      <<"<","p",">","i","c","o","n",".","p","n","g","<","/","p",">">> }

InitStore ==
    /\ imageStore = EmptyStore
    /\ StoreIdle
    /\ CrawlerIdle
    /\ SanitizerIdle
    /\ AnalyzerIdle
    /\ BuilderIdle

\* layout.tsx: an image entry of an archive is registered
StoreImage ==
    /\ Len(stored) < MaxStores
    /\ \E p \in StorePaths, d \in StoreData :
          /\ imageStore' = storeImage(imageStore, p, d)
          /\ stored' = Append(stored, [path |-> p, data |-> d])
    /\ lookup' = NoCall
    /\ UNCHANGED <<session, crawlVars, sanitizerVars, analyzerVars, builderVars>>

\* layout.tsx clearFiles: the store is emptied
ClearImageStore ==
    /\ session.clears < MaxClears
    /\ imageStore' = clearImageStore(imageStore)
    /\ stored' = <<>>
    /\ lookup' = NoCall
    /\ session' = [clears |-> session.clears + 1, deleted |-> Len(imageStore) > 0]
    /\ UNCHANGED <<crawlVars, sanitizerVars, analyzerVars, builderVars>>

FindImage ==
    /\ \E q \in StoreQueries :
          lookup' = [op |-> "find", arg |-> q, ret |-> findImageInStore(q, imageStore)]
    /\ UNCHANGED <<imageStore, stored, session, crawlVars, sanitizerVars, analyzerVars, builderVars>>

ReplaceImagePaths ==
    /\ \E c \in StoreContents :
          lookup' = [op |-> "replace", arg |-> c, ret |-> Str(replaceImagePaths(c, imageStore))]
    /\ UNCHANGED <<imageStore, stored, session, crawlVars, sanitizerVars, analyzerVars, builderVars>>

NextStore == StoreImage \/ ClearImageStore \/ FindImage \/ ReplaceImagePaths

SpecStore == InitStore /\ [][NextStore]_vars

\* the registrations, in order, whose path the looked-up form refers to
Matching(q) == {i \in 1..Len(stored) : q \in LookupForms(stored[i].path)}

\* C11: a lookup by any form of the path registered last (the path itself,
\* its file name, each suffix on a segment boundary, bare or under ./, ../
\* and /) returns the data of that registration, when the data is not empty
C11_AllFormsResolve ==
    (/\ lookup.op = "find"
     /\ stored # <<>>
     /\ stored[Len(stored)].data # <<>>
     /\ lookup.arg \in LookupForms(stored[Len(stored)].path))
    => lookup.ret = Str(stored[Len(stored)].data)

\* a second asset was registered over keys of the first, and it is looked up
\* by a prefixed form that is not the path it was registered under
C11_Witness ==
    /\ lookup.op = "find"
    /\ Len(stored) = 2
    /\ stored[1].path # stored[2].path
    /\ stored[1].data # stored[2].data
    /\ lookup.arg \in LookupForms(stored[2].path) \ {stored[2].path}
    /\ lookup.arg \in LookupForms(stored[1].path)
    /\ lookup.arg[1] = "."
    /\ lookup.ret = Str(stored[2].data)

\* C12: when the looked-up form refers to several registered assets, the
\* lookup returns the data of the one registered first
C12_FirstRegisteredWins ==
    (/\ lookup.op = "find"
     /\ \E i, j \in Matching(lookup.arg) : stored[i].path # stored[j].path)
    => lookup.ret = Str(stored[MinOf(Matching(lookup.arg))].data)

RECURSIVE Replay(_)
\* the record a fresh store holds after the given registrations
Replay(regs) ==
    IF regs = <<>> THEN EmptyStore
    ELSE storeImage(Replay(SubSeq(regs, 1, Len(regs) - 1)),
                    regs[Len(regs)].path, regs[Len(regs)].data)

\* C13: after a clear and before any new registration the store owns no
\* key, every lookup returns null and every rewrite returns its input; with
\* registrations after the clear the store is the one a fresh store holds
\* after the same registrations
C13_ClearedStoreIsFresh ==
    session.clears > 0 =>
        /\ imageStore = Replay(stored)
        /\ stored = <<>> =>
              /\ Len(imageStore) = 0
              /\ lookup.op = "find" => lookup.ret = Null
              /\ lookup.op = "replace" => lookup.ret = Str(lookup.arg)

\* a clear deleted keys, and a form of a registered path was looked up after
C13_Witness ==
    /\ session.clears > 0
    /\ session.deleted
    /\ stored = <<>>
    /\ lookup.op = "find"
    /\ \E p \in StorePaths : lookup.arg \in LookupForms(p)

\* the matches of the two expressions in a fragment: start, end, path
Refs(c) ==
    { [from |-> j, to |-> RefMatch(kind, c, j).end, kind |-> kind,
       path |-> RefMatch(kind, c, j).path] :
        j \in {i \in 1..Len(c) : RefMatch("src", c, i).end # 0 \/ RefMatch("url", c, i).end # 0},
        kind \in {"src", "url"} }

Found(ref) == ref.to # 0 /\ IsTruthy(findImageInStore(ref.path, imageStore))

Absent(ref) == ref.to # 0 /\ ~IsTruthy(findImageInStore(ref.path, imageStore))

\* C14: a rewrite returns a string; when no reference of the fragment is
\* found in the store the fragment is returned as it is; the text before
\* the first and after the last reference is kept, a reference that is not
\* found stays in the result as it was written, and a reference that is
\* found is written with the stored data
C14_OnlyFoundReferencesChange ==
    lookup.op = "replace" =>
        /\ lookup.ret.t = "string"
        /\ (\A ref \in Refs(lookup.arg) : ~Found(ref)) => lookup.ret.v = lookup.arg
        /\ \A ref \in Refs(lookup.arg) :
              /\ ref.to # 0 /\ (\A o \in Refs(lookup.arg) : o.to # 0 => o.from >= ref.from)
                    => startsWith(lookup.ret.v, SubSeq(lookup.arg, 1, ref.from - 1))
              /\ ref.to # 0 /\ (\A o \in Refs(lookup.arg) : o.to <= ref.to)
                    => endsWith(lookup.ret.v, SubSeq(lookup.arg, ref.to + 1, Len(lookup.arg)))
              /\ Absent(ref) /\ Len(imageStore) > 0
                    => includes(lookup.ret.v, SubSeq(lookup.arg, ref.from, ref.to))
              /\ Found(ref) /\ Len(imageStore) > 0
                    => includes(lookup.ret.v,
                                <<"\"">> \o findImageInStore(ref.path, imageStore).v \o <<"\"">>)

\* a fragment with one reference that is found and one that is not
C14_Witness ==
    /\ lookup.op = "replace"
    /\ lookup.ret.v # lookup.arg
    /\ \E ref \in Refs(lookup.arg) : Found(ref)
    /\ \E ref \in Refs(lookup.arg) : Absent(ref)

----------------------------------------------------------------------------
(* Crawler: src/app/api/fetch-url/route.ts.  A page is held as the values *)
(* the link expressions capture from it (the href of each <a> of the      *)
(* navigation areas, the href of each <link> to a .css file and each      *)
(* @import of the page), a stylesheet as the targets of its @import       *)
(* rules.  URLs are strings of the form scheme://host/path?query#hash.    *)

\* /w/i.test(s) for one of the words
HasWordCI(s, words) == \E w \in words : FirstLitCI(s, 1, w) # 0

excludeCssPatterns ==
    { <<"s","w","i","p","e","r">>, <<"b","x","s","l","i","d","e","r">>, <<"s","l","i","c","k">>, <<"o","w","l",".","c","a","r","o","u","s","e","l">>, <<"s","p","l","i","d","e">> }

IsExcludedCss(cssUrl) == HasWordCI(cssUrl, excludeCssPatterns)

BinaryExts ==
    { <<"j","p","g">>, <<"j","p","e","g">>, <<"p","n","g">>, <<"g","i","f">>, <<"s","v","g">>, <<"w","e","b","p">>, <<"i","c","o">>, <<"p","d","f">>, <<"z","i","p">>,
      <<"d","o","c">>, <<"d","o","c","x">>, <<"x","l","s">>, <<"x","l","s","x">>, <<"p","p","t">>, <<"p","p","t","x">> }

\* /\.(jpg|...|pptx)(\?|$)/i
IsBinaryLink(href) ==
    \E e \in BinaryExts : \E i \in 1..Len(href) :
        /\ AtCI(href, i, <<".">> \o e)
        /\ (i + Len(e) = Len(href) \/ At(href, i + Len(e) + 1, <<"?">>))

\* /^(mailto:|tel:|javascript:|#)/i
IsSchemeLink(href) ==
    \E p \in { <<"m","a","i","l","t","o",":">>, <<"t","e","l",":">>, <<"j","a","v","a","s","c","r","i","p","t",":">>, <<"#">> } : AtCI(href, 1, p)

\* /\/(w1|w2|...)\//i
HasSegmentCI(href, words) == HasWordCI(href, { <<"/">> \o w \o <<"/">> : w \in words })

AuthSegments ==
    { <<"l","o","g","i","n">>, <<"l","o","g","o","u","t">>, <<"s","i","g","n","i","n">>, <<"s","i","g","n","o","u","t">>, <<"r","e","g","i","s","t","e","r">>, <<"s","i","g","n","u","p">>,
      <<"a","d","m","i","n">>, <<"a","p","i">>, <<"a","u","t","h">> }

LanguageRoots ==
    { <<"e","n">>, <<"e","n","g">>, <<"e","n","g","l","i","s","h">>, <<"j","p">>, <<"j","p","n">>, <<"j","a","p","a","n","e","s","e">>, <<"c","n">>, <<"c","h","i">>,
      <<"c","h","i","n","e","s","e">>, <<"k","r">>, <<"k","o","r">>, <<"k","o","r","e","a","n">>, <<"z","h">>, <<"j","a">>, <<"d","e">>, <<"f","r">>, <<"e","s">>, <<"v","i">> }

\* /^\/(en|eng|...|vi)\/?$/i
IsLanguageRoot(href) ==
    \E w \in LanguageRoots :
        toLowerCase(href) \in { <<"/">> \o w, <<"/">> \o w \o <<"/">> }

LanguageSegments ==
    { <<"e","n">>, <<"e","n","g">>, <<"e","n","g","l","i","s","h">>, <<"j","p">>, <<"j","p","n">>, <<"j","a","p","a","n","e","s","e">>, <<"c","n">>, <<"c","h","n">>,
      <<"c","h","i","n","e","s","e">>, <<"z","h">>, <<"j","a">> }

KidsSegments == { <<"k","i","d","s">>, <<"c","h","i","l","d","r","e","n">>, <<"c","h","i","l","d">>, <<"j","u","n","i","o","r">>, <<"y","o","u","t","h">> }

SiteHostPrefixes == { <<"k","i","d","s">>, <<"c","h","i","l","d","r","e","n">>, <<"c","h","i","l","d">>, <<"w","w","w",".">>, <<"m",".">>, <<"m","o","b","i","l","e",".">> }

\* /^https?:\/\/(kids|children|child|www\.|m\.|mobile\.)/i
IsOtherSiteLink(href) ==
    \E p \in SiteHostPrefixes :
        AtCI(href, 1, <<"h","t","t","p",":","/","/">> \o p) \/ AtCI(href, 1, <<"h","t","t","p","s",":","/","/">> \o p)

\* excludeLinkPatterns.some(pattern => pattern.test(href))
IsExcludedLink(href) ==
    \/ IsBinaryLink(href)
    \/ IsSchemeLink(href)
    \/ HasSegmentCI(href, AuthSegments)
    \/ IsLanguageRoot(href)
    \/ HasSegmentCI(href, LanguageSegments)
    \/ HasSegmentCI(href, KidsSegments)
    \/ IsOtherSiteLink(href)

CmsExts == { <<"e","s">>, <<"d","o">>, <<"a","c","t","i","o","n">>, <<"a","s","p">>, <<"a","s","p","x">>, <<"p","h","p">>, <<"j","s","p">> }

CmsParams == { <<"m","i","d">>, <<"m","e","n","u">>, <<"p","a","g","e">>, <<"v","i","e","w">>, <<"m","o","d","e">>, <<"a","c","t">> }

\* cmsPagePatterns.some(pattern => pattern.test(url))
isCmsStylePage(url) ==
    \/ HasWordCI(url, { <<".">> \o e \o <<"?">> : e \in CmsExts })
    \/ HasWordCI(url, { <<"?">> \o p \o <<"=">> : p \in CmsParams })

\* /[?&](w1|w2|...)=/i
HasQueryParamCI(url, names) ==
    HasWordCI(url, { <<c>> \o n \o <<"=">> : c \in {"?", "&"}, n \in names })

\* /[?&](page|p)=\d+/i
HasPageNumber(url) ==
    \E n \in { <<"p","a","g","e">>, <<"p">> } : \E i \in 1..Len(url) :
        /\ url[i] \in {"?", "&"}
        /\ AtCI(url, i + 1, n \o <<"=">>)
        /\ i + Len(n) + 2 <= Len(url)
        /\ url[i + Len(n) + 2] \in Digits

\* excludeQueryPatterns.some(pattern => pattern.test(href))
IsExcludedQuery(url) ==
    \/ HasQueryParamCI(url, { <<"s","e","a","r","c","h">>, <<"k","e","y","w","o","r","d">>, <<"q","u","e","r","y">>, <<"q">> })
    \/ HasQueryParamCI(url, { <<"s","o","r","t">>, <<"o","r","d","e","r">>, <<"f","i","l","t","e","r">> })
    \/ HasPageNumber(url)

HtmlExts == { <<"h","t","m","l">>, <<"h","t","m">>, <<"p","h","p">>, <<"a","s","p">>, <<"a","s","p","x">>, <<"j","s","p">>, <<"d","o">> }

\* ext is pathname.split('.').pop()?.toLowerCase()
IsHtmlExt(pathname, ext) ==
    IF ext = <<>> \/ ext = pathname THEN TRUE ELSE ext \in HtmlExts

isHtmlPage(pathname) ==
    IsHtmlExt(pathname, toLowerCase(split(pathname, ".")[Len(split(pathname, "."))]))

\* first index >= from of a character of stops, Len(s) + 1 when there is none
EndBefore(s, from, stops) ==
    IF \E j \in from..Len(s) : s[j] \in stops
    THEN MinOf({j \in from..Len(s) : s[j] \in stops})
    ELSE Len(s) + 1

NotUrl == [ok |-> FALSE, protocol |-> <<>>, host |-> <<>>, pathname |-> <<>>, search |-> <<>>]

\* p is where the path starts, q where it ends
UrlAfterPath(s, protocol, host, p, q) ==
    [ok |-> TRUE, protocol |-> protocol, host |-> host,
     pathname |-> IF q = p THEN <<"/">> ELSE SubSeq(s, p, q - 1),
     search |-> IF EndBefore(s, q, {"#"}) - q <= 1 THEN <<>>
                ELSE SubSeq(s, q, EndBefore(s, q, {"#"}) - 1)]

\* h is where the host starts, p where it ends; an empty host does not parse
UrlAfterHost(s, protocol, h, p) ==
    IF p = h THEN NotUrl
    ELSE UrlAfterPath(s, protocol, toLowerCase(SubSeq(s, h, p - 1)), p,
                      EndBefore(s, p, {"?", "#"}))

\* new URL(s) without a base: the parts the route reads, ok = FALSE when the
\* constructor throws
NewURL(s) ==
    IF AtCI(s, 1, <<"h","t","t","p","s",":","/","/">>)
    THEN UrlAfterHost(s, <<"h","t","t","p","s",":">>, 9, EndBefore(s, 9, {"/", "?", "#"}))
    ELSE IF AtCI(s, 1, <<"h","t","t","p",":","/","/">>)
    THEN UrlAfterHost(s, <<"h","t","t","p",":">>, 8, EndBefore(s, 8, {"/", "?", "#"}))
    ELSE NotUrl

\* eq is where the "=" of the pair stands, 0 when it has none
PairAt(pair, eq) ==
    IF eq = 0 THEN [name |-> pair, value |-> <<>>]
    ELSE [name |-> SubSeq(pair, 1, eq - 1), value |-> SubSeq(pair, eq + 1, Len(pair))]

Pair(pair) == PairAt(pair, FirstChar(pair, 1, "="))

ValueAt(pairs, i) == IF i = 0 THEN <<>> ELSE Pair(pairs[i]).value

\* searchParams.get(name) as the route uses it: the empty string stands for
\* null, which the route does not tell from an empty value
SearchParam(search, name) ==
    IF search = <<>> THEN <<>>
    ELSE ValueAt(split(Tail(search), "&"),
                 FirstOf({i \in 1..Len(split(Tail(search), "&")) :
                            Pair(split(Tail(search), "&")[i]).name = name}))

NormalizedKey(url, urlObj, mid) ==
    IF ~urlObj.ok THEN url
    ELSE IF mid # <<>> THEN urlObj.pathname \o <<"?","m","i","d","=">> \o mid
    ELSE urlObj.pathname \o urlObj.search

KeyOf(url, urlObj) == NormalizedKey(url, urlObj, SearchParam(urlObj.search, <<"m","i","d">>))

normalizeUrl(url) == KeyOf(url, NewURL(url))

WordChars ==
    Digits \cup {"_"} \cup
    {"a","b","c","d","e","f","g","h","i","j","k","l","m",
     "n","o","p","q","r","s","t","u","v","w","x","y","z"}

\* /^\w+\.(es|do|action|asp|aspx|php|jsp)/i
IsCmsFileName(href) ==
    \E e \in CmsExts : \E i \in 2..Len(href) :
        /\ AtCI(href, i, <<".">> \o e)
        /\ \A k \in 1..(i - 1) : Lower(href[k]) \in WordChars

\* the absolute form of an href, the empty string for a skipped relative one
Absolute(href, baseUrl) ==
    IF startsWith(href, <<"/","/">>) THEN <<"h","t","t","p","s",":">> \o href
    ELSE IF startsWith(href, <<"/">>) THEN baseUrl \o href
    ELSE IF startsWith(href, <<"h","t","t","p">>) THEN href
    ELSE IF includes(href, <<"?">>) \/ IsCmsFileName(href) THEN baseUrl \o <<"/">> \o href
    ELSE <<>>

\* the checks on the parsed link, lines 119 to 149
IsPageLink(href, linkUrl, currentHost) ==
    /\ linkUrl.ok
    /\ linkUrl.host = currentHost
    /\ IF linkUrl.search # <<>>
       THEN isCmsStylePage(href) /\ ~IsExcludedQuery(href)
       ELSE isHtmlPage(linkUrl.pathname) /\ linkUrl.pathname # <<"/">>

\* a sequence with the index of each element at its side
Indexed(xs) == [k \in 1..Len(xs) |-> [i |-> k, x |-> xs[k]]]

Unindexed(es) == [k \in 1..Len(es) |-> es[k].x]

\* the elements in the order of their first occurrence: what pushing each
\* element the list does not include yet leaves
Distinct(xs) ==
    Unindexed(SelectSeq(Indexed(xs), LAMBDA e : \A j \in 1..(e.i - 1) : xs[j] # e.x))

\* one round of the while loop over the <a> matches up to the duplicate
\* check: the link that is a candidate for the push, the empty string when
\* the round ends before
NavChecked(href, currentHost) ==
    IF href # <<>> /\ IsPageLink(href, NewURL(href), currentHost) THEN href ELSE <<>>

NavCandidate(href, baseUrl, currentHost) ==
    IF IsExcludedLink(href) THEN <<>>
    ELSE NavChecked(Absolute(href, baseUrl), currentHost)

\* links.some(link => normalizeUrl(link) === normalizedUrl) is false for the
\* candidate at e.i: a link is in links exactly when it is the first
\* candidate with its key
IsFirstOfKey(candidates, e) ==
    /\ e.x # <<>>
    /\ \A j \in 1..(e.i - 1) :
          candidates[j] = <<>> \/ normalizeUrl(candidates[j]) # normalizeUrl(e.x)

NavLinks(candidates) ==
    Unindexed(SelectSeq(Indexed(candidates), LAMBDA e : IsFirstOfKey(candidates, e)))

\* extractNavLinks on the hrefs the link expression captures from the page
extractNavLinks(hrefs, baseUrl, currentHost) ==
    NavLinks([k \in 1..Len(hrefs) |-> NavCandidate(trim(hrefs[k]), baseUrl, currentHost)])

\* the first path segment that is not empty, 'root' when there is none
FirstSegment(parts) ==
    IF parts = <<>> THEN <<"r","o","o","t">> ELSE Head(parts)

CategoryOf(urlObj, mid) ==
    IF mid # <<>> THEN SubSeq(mid, 1, IF Len(mid) < 4 THEN Len(mid) ELSE 4)
    ELSE FirstSegment(SelectSeq(split(urlObj.pathname, "/"), LAMBDA p : Len(p) > 0))

LinkCategory(link) == CategoryOf(NewURL(link), SearchParam(NewURL(link).search, <<"m","i","d">>))

\* the links of one category, in the order they were pushed
LinksOf(links, cats, c) ==
    Unindexed(SelectSeq(Indexed(links), LAMBDA e : cats[e.i] = c))

\* cats[k] is the category of links[k]; the keys of the Map are in the order
\* of their first set
Grouped(links, cats, keys) ==
    [k \in 1..Len(keys) |-> [category |-> keys[k], links |-> LinksOf(links, cats, keys[k])]]

GroupedBy(links, cats) == Grouped(links, cats, Distinct(cats))

\* the Map of categories in insertion order
groupLinksByCategory(links) ==
    GroupedBy(links, [k \in 1..Len(links) |-> LinkCategory(links[k])])

maxTotal == 20

Max(a, b) == IF a >= b THEN a ELSE b

linksPerCategory(categories) == Max(1, maxTotal \div Max(Len(categories), 1))

RECURSIVE SelectFrom(_, _, _, _, _)
\* the for loop over the categories, with its break
SelectFrom(categories, k, url, per, selected) ==
    IF k > Len(categories) \/ Len(selected) >= maxTotal THEN selected
    ELSE SelectFrom(categories, k + 1, url, per,
                    selected \o slice(SelectSeq(categories[k].links, LAMBDA link : link # url), per))

\* selectedLinks.slice(0, maxTotal)
selectedLinks(navLinks, url) ==
    slice(SelectFrom(groupLinksByCategory(navLinks), 1, url,
                     linksPerCategory(groupLinksByCategory(navLinks)), <<>>), maxTotal)

\* the absolute form of a stylesheet reference of a page, lines 219 to 227
CssAbsolute(cssUrl, baseUrl, pathParts) ==
    IF startsWith(cssUrl, <<"/","/">>) THEN <<"h","t","t","p","s",":">> \o cssUrl
    ELSE IF startsWith(cssUrl, <<"/">>) THEN baseUrl \o cssUrl
    ELSE IF startsWith(cssUrl, <<"h","t","t","p">>) THEN cssUrl
    ELSE baseUrl \o Join(SubSeq(pathParts, 1, Len(pathParts) - 1), <<"/">>)
            \o <<"/">> \o cssUrl

\* the two while loops: a reference is pushed when it is not excluded and
\* cssLinks does not include it
CssLinks(cssUrls) ==
    Distinct(SelectSeq(cssUrls, LAMBDA cssUrl : ~IsExcludedCss(cssUrl)))

\* extractCssLinks on the captures of the <link> expression followed by those
\* of the @import expression
extractCssLinks(content, baseUrl, pathname) ==
    CssLinks([k \in 1..Len(content.css \o content.imports) |->
                CssAbsolute((content.css \o content.imports)[k], baseUrl,
                            split(pathname, "/"))])

RECURSIVE Flat(_, _)
Flat(xss, k) == IF k = 0 THEN <<>> ELSE Flat(xss, k - 1) \o xss[k]

\* htmlPages.forEach, lines 329 to 338: each link of each page is pushed
\* when allCssLinks does not include it
collectCssLinks(htmlPages, baseUrl) ==
    Distinct(Flat([k \in 1..Len(htmlPages) |->
                      extractCssLinks(htmlPages[k].content, baseUrl,
                                      NewURL(htmlPages[k].url).pathname)],
                  Len(htmlPages)))

\* the absolute form of an @import of a stylesheet, lines 377 to 386
ImportAbsolute(importUrl, baseUrl, cssPathParts) ==
    IF startsWith(importUrl, <<"/","/">>) THEN <<"h","t","t","p","s",":">> \o importUrl
    ELSE IF startsWith(importUrl, <<"/">>) THEN baseUrl \o importUrl
    ELSE IF startsWith(importUrl, <<"h","t","t","p">>) THEN importUrl
    ELSE Join(SubSeq(cssPathParts, 1, Len(cssPathParts) - 1), <<"/">>)
            \o <<"/">> \o importUrl

\* importUrls of a fetched stylesheet, as calls one level deeper
importCalls(cssContent, cssUrl, baseUrl, depth) ==
    [k \in 1..Len(cssContent.imports) |->
        [url |-> ImportAbsolute(trim(cssContent.imports[k]), baseUrl, split(cssUrl, "/")),
         depth |-> depth + 1]]

maxCss == 15

maxDepth == 2

maxTopLevel == 10

\* a guard that follows imports to any depth
cssReturnsEarlyAtAnyDepth(call, fetchedCssUrls, cssContents) ==
    \/ call.url \in fetchedCssUrls
    \/ Len(cssContents) >= maxCss
    \/ IsExcludedCss(call.url)

\* the guard of fetchCssWithImports, lines 347 to 354
cssReturnsEarly(call, fetchedCssUrls, cssContents) ==
    \/ call.depth > maxDepth
    \/ call.url \in fetchedCssUrls
    \/ Len(cssContents) >= maxCss
    \/ IsExcludedCss(call.url)

----------------------------------------------------------------------------
(* The web the crawler runs against: what each URL serves.  a.com is a    *)
(* small site with a CMS menu, non-content links, a page with an empty    *)
(* body, stylesheets on another host and @import chains; big.com has more *)
(* links and stylesheets than the caps allow.                              *)

Resource(status, empty, links, css, imports) ==
    [status |-> status, empty |-> empty, links |-> links, css |-> css, imports |-> imports]

Page(links, css) == Resource(200, FALSE, links, css, <<>>)

Sheet(imports) == Resource(200, FALSE, <<>>, <<>>, imports)

Empty == Resource(200, TRUE, <<>>, <<>>, <<>>)

NotFound == Resource(404, FALSE, <<>>, <<>>, <<>>)

HomeLinks ==
    << <<"/","a","b","o","u","t">>, <<" ","/","a","b","o","u","t"," ">>, <<"/","m","e","n","u",".","e","s","?","m","i","d","=","a","1","0","1","0","&","x","=","1">>, <<"m","e","n","u",".","e","s","?","m","i","d","=","a","1","0","1","0">>,
       <<"/","a","d","m","i","n","/","u","s","e","r","s">>, <<"/","f","i","l","e","s","/","d","o","c",".","p","d","f">>, <<"h","t","t","p","s",":","/","/","o","t","h","e","r",".","c","o","m","/","x">>, <<"/","l","i","s","t","?","p","a","g","e","=","2">>,
       <<"/","e","m","p","t","y">>, <<"/","g","o","n","e">>, <<"m","a","i","l","t","o",":","a","@","a",".","c","o","m">>, <<"/">>, <<"/","l","o","g","i","n">> >>

HomeCss ==
    << <<"/","c","s","s","/","m","a","i","n",".","c","s","s">>, <<"/","/","c","d","n",".","o","t","h","e","r",".","c","o","m","/","l","i","b",".","c","s","s">>, <<"/","c","s","s","/","s","w","i","p","e","r",".","m","i","n",".","c","s","s">>, <<"t","h","e","m","e",".","c","s","s">> >>

SmallSite ==
    <<"h","t","t","p","s",":","/","/","a",".","c","o","m","/">> :> Page(HomeLinks, HomeCss) @@
    <<"h","t","t","p","s",":","/","/","a",".","c","o","m","/","a","b","o","u","t">> :> Page(<<>>, << <<"/","c","s","s","/","m","a","i","n",".","c","s","s">>, <<"/","c","s","s","/","a","b","o","u","t",".","c","s","s">> >>) @@
    <<"h","t","t","p","s",":","/","/","a",".","c","o","m","/","m","e","n","u",".","e","s","?","m","i","d","=","a","1","0","1","0","&","x","=","1">> :> Page(<<>>, <<>>) @@
    <<"h","t","t","p","s",":","/","/","a",".","c","o","m","/","m","e","n","u",".","e","s","?","m","i","d","=","a","1","0","1","0">> :> Page(<<>>, <<>>) @@
    <<"h","t","t","p","s",":","/","/","a",".","c","o","m","/","m","e","n","u",".","e","s","?","m","i","d","=","a","1","0","1","0","&","f","r","o","m","=","h","o","m","e">> :>
        Page(<< <<"/","m","e","n","u",".","e","s","?","m","i","d","=","a","1","0","1","0">>, <<"/","a","b","o","u","t">> >>, << <<"/","c","s","s","/","m","a","i","n",".","c","s","s">> >>) @@
    <<"h","t","t","p","s",":","/","/","a",".","c","o","m","/","e","m","p","t","y">> :> Empty @@
    <<"h","t","t","p","s",":","/","/","a",".","c","o","m","/","l","o","g","i","n">> :> Page(<<>>, <<>>) @@
    <<"h","t","t","p","s",":","/","/","a",".","c","o","m","/","c","s","s","/","m","a","i","n",".","c","s","s">> :> Sheet(<< <<"b","a","s","e",".","c","s","s">> >>) @@
    <<"h","t","t","p","s",":","/","/","a",".","c","o","m","/","c","s","s","/","b","a","s","e",".","c","s","s">> :> Sheet(<< <<"/","c","s","s","/","d","e","e","p",".","c","s","s">>, <<"m","a","i","n",".","c","s","s">> >>) @@
    <<"h","t","t","p","s",":","/","/","a",".","c","o","m","/","c","s","s","/","d","e","e","p",".","c","s","s">> :> Sheet(<< <<"d","e","e","p",".","c","s","s">>, <<"d","e","e","p","e","r",".","c","s","s">> >>) @@
    <<"h","t","t","p","s",":","/","/","a",".","c","o","m","/","c","s","s","/","d","e","e","p","e","r",".","c","s","s">> :> Sheet(<<>>) @@
    <<"h","t","t","p","s",":","/","/","a",".","c","o","m","/","t","h","e","m","e",".","c","s","s">> :> Empty @@
    <<"h","t","t","p","s",":","/","/","c","d","n",".","o","t","h","e","r",".","c","o","m","/","l","i","b",".","c","s","s">> :> Sheet(<<>>)

DigitChars == <<"0", "1", "2", "3", "4", "5", "6", "7", "8", "9">>

Num2(n) == <<DigitChars[(n \div 10) + 1], DigitChars[(n % 10) + 1]>>

BigLinkCount == 24

BigCssCount == 12

BigHome ==
    Page([n \in 1..BigLinkCount |-> <<"/","s","/","p">> \o Num2(n)],
         [n \in 1..BigCssCount |-> <<"/","c","/","s">> \o Num2(n) \o <<".","c","s","s">>])

\* the stylesheets of big.com import one another in chains s, t, u, v
SheetLevels == <<"s", "t", "u", "v">>

NextLevel(c) == SheetLevels[(CHOOSE k \in 1..3 : SheetLevels[k] = c) + 1]

\* what a URL serves when the request reaches the server
Serve(u) ==
    IF u \in DOMAIN SmallSite THEN SmallSite[u]
    ELSE IF u = <<"h","t","t","p","s",":","/","/","b","i","g",".","c","o","m","/">> THEN BigHome
    ELSE IF \E n \in 1..BigLinkCount : u = <<"h","t","t","p","s",":","/","/","b","i","g",".","c","o","m","/","s","/","p">> \o Num2(n)
    THEN Page(<<>>, <<>>)
    ELSE IF \E n \in 1..BigCssCount, k \in 1..3 :
                u = <<"h","t","t","p","s",":","/","/","b","i","g",".","c","o","m","/","c","/">> \o <<SheetLevels[k]>> \o Num2(n) \o <<".","c","s","s">>
    THEN Sheet(<< <<NextLevel(u[Len(u) - 6])>> \o SubSeq(u, Len(u) - 5, Len(u)) >>)
    ELSE IF \E n \in 1..BigCssCount : u = <<"h","t","t","p","s",":","/","/","b","i","g",".","c","o","m","/","c","/","v">> \o Num2(n) \o <<".","c","s","s">>
    THEN Sheet(<<>>)
    ELSE NotFound

Requests ==
    { NoUrl, Url(<<>>), Url(<<"a",".","c","o","m","/","a","b","o","u","t">>), Url(<<"n","o","t"," ","a"," ","u","r","l">>),
      Url(<<"h","t","t","p","s",":","/","/","a",".","c","o","m","/">>), Url(<<"h","t","t","p","s",":","/","/","a",".","c","o","m","/","m","e","n","u",".","e","s","?","m","i","d","=","a","1","0","1","0","&","f","r","o","m","=","h","o","m","e">>),
      Url(<<"h","t","t","p","s",":","/","/","a",".","c","o","m","/","m","i","s","s","i","n","g">>), Url(<<"h","t","t","p","s",":","/","/","a",".","c","o","m","/","e","m","p","t","y">>),
      Url(<<"h","t","t","p","s",":","/","/","b","i","g",".","c","o","m","/">>) }

\* the hosts whose connection never fails
Reliable(u) == At(u, 1, <<"h","t","t","p","s",":","/","/","b","i","g",".","c","o","m","/">>)

MaxNetErrors == 1

MaxAhead == 2

----------------------------------------------------------------------------
(* POST as a state machine: the handler runs from one await to the next.  *)
(* The subpage fetches are started together and settle in any order, at   *)
(* most MaxAhead of them ahead of an earlier one that is still pending;   *)
(* the stylesheet calls run one after the other, the pending calls of the *)
(* recursion held as a stack.  A fetch throws at most MaxNetErrors times  *)
(* in a crawl, and the connection to big.com never fails.  Request bodies *)
(* are JSON objects.                                                       *)

\* a fetch that was started: what was asked for, and how it settled
Started(u, kind, depth) ==
    [url |-> u, kind |-> kind, depth |-> depth, state |-> "pending", empty |-> FALSE]

\* how a fetch settles: the server's answer, or a thrown network error
Outcomes(u, errors) ==
    { [thrown |-> FALSE, res |-> Serve(u)] } \cup
    (IF errors < MaxNetErrors /\ ~Reliable(u)
     THEN { [thrown |-> TRUE, res |-> NotFound] } ELSE {})

\* response.ok
IsOk(o) == ~o.thrown /\ o.res.status >= 200 /\ o.res.status <= 299

Settled(entry, o) ==
    [entry EXCEPT !.state = IF IsOk(o) THEN "ok" ELSE "failed",
                  !.empty = IsOk(o) /\ o.res.empty]

Thrown(o) == IF o.thrown THEN 1 ELSE 0

\* what fetchPage resolves to: the body, or null
NoPage == [null |-> TRUE, content |-> NotFound]

fetchPage(o) == IF IsOk(o) THEN [null |-> FALSE, content |-> o.res] ELSE NoPage

\* a body is truthy when it is not null and not the empty string
HasBody(page) == ~page.null /\ ~page.content.empty

Reject(c, status) == [c EXCEPT !.phase = "done", !.response = ErrorResponse(status)]

Received(body) == [CrawlIdle EXCEPT !.body = body]

BaseUrl(parsedUrl) == parsedUrl.protocol \o <<"/","/">> \o parsedUrl.host

\* lines 278 to 282: the seed fetch is started
StartSeed(body, parsedUrl) ==
    [Received(body) EXCEPT !.phase = "seed", !.url = body.value, !.baseUrl = BaseUrl(parsedUrl),
                      !.currentHost = parsedUrl.host,
                      !.log = <<Started(body.value, "page", 0)>>]

\* a validation that starts the seed fetch without parsing the url
ValidateUnparsed(body, parsedUrl) ==
    IF ~body.present \/ body.value = <<>> THEN Reject(Received(body), 400)
    ELSE StartSeed(body, parsedUrl)

\* lines 264 to 276
Validate(body, parsedUrl) ==
    IF ~body.present \/ body.value = <<>> THEN Reject(Received(body), 400)
    ELSE IF ~parsedUrl.ok THEN Reject(Received(body), 400)
    ELSE StartSeed(body, parsedUrl)

\* a promise of the fan-out that has not settled
Pending(link) == [pending |-> TRUE, null |-> TRUE, url |-> link, content |-> NotFound]

\* content ? { url: link, content } : null
SubpageResult(link, page) ==
    IF HasBody(page)
    THEN [pending |-> FALSE, null |-> FALSE, url |-> link, content |-> page.content]
    ELSE [pending |-> FALSE, null |-> TRUE, url |-> link, content |-> NotFound]

\* lines 314 to 319: one fetch per selected link, started in order
FanOut(c, mainHtml, links) ==
    [c EXCEPT !.phase = "subpages",
              !.htmlPages = <<[url |-> c.url, content |-> mainHtml.content]>>,
              !.selected = links,
              !.results = [k \in 1..Len(links) |-> Pending(links[k])],
              !.log = @ \o [k \in 1..Len(links) |-> Started(links[k], "page", 0)]]

\* a handler that goes on with an empty page when the seed fetch failed
AfterSeedIgnoringFailure(c, mainHtml) ==
    FanOut(c, mainHtml,
           selectedLinks(extractNavLinks(mainHtml.content.links, c.baseUrl,
                                         c.currentHost), c.url))

\* lines 283 to 312
AfterSeed(c, mainHtml) ==
    IF ~HasBody(mainHtml) THEN Reject(c, 400)
    ELSE FanOut(c, mainHtml,
                selectedLinks(extractNavLinks(mainHtml.content.links, c.baseUrl,
                                              c.currentHost), c.url))

SettleLog(c, i, o) ==
    [c EXCEPT !.log[i] = Settled(@, o), !.errors = @ + Thrown(o)]

RECURSIVE PushResultsLastFirst(_, _, _)
\* a join that pushes the results from the last to the first
PushResultsLastFirst(htmlPages, results, k) ==
    IF k > Len(results) THEN htmlPages
    ELSE PushResultsLastFirst(IF results[Len(results) + 1 - k].null THEN htmlPages
                              ELSE Append(htmlPages, [url |-> results[Len(results) + 1 - k].url,
                                                      content |-> results[Len(results) + 1 - k].content]),
                              results, k + 1)

RECURSIVE PushResults(_, _, _)
\* subpageResults.forEach
PushResults(htmlPages, results, k) ==
    IF k > Len(results) THEN htmlPages
    ELSE PushResults(IF results[k].null THEN htmlPages
                     ELSE Append(htmlPages, [url |-> results[k].url,
                                             content |-> results[k].content]),
                     results, k + 1)

TopLevelCalls(allCssLinks) ==
    [k \in 1..Len(slice(allCssLinks, maxTopLevel)) |-> [url |-> allCssLinks[k], depth |-> 0]]

\* lines 321 to 338 and 402
AfterSubpages(c, htmlPages) ==
    [c EXCEPT !.phase = "css", !.htmlPages = htmlPages,
              !.calls = TopLevelCalls(collectCssLinks(htmlPages, c.baseUrl))]

\* a fetch that does not record the url it fetched
AfterCssUnrecorded(c, call, o) ==
    [c EXCEPT !.log = Append(@, Settled(Started(call.url, "css", call.depth), o)),
              !.errors = @ + Thrown(o),
              !.cssContents = IF IsOk(o)
                              THEN Append(@, [url |-> call.url, content |-> o.res])
                              ELSE @,
              !.calls = IF IsOk(o)
                        THEN importCalls(o.res, call.url, c.baseUrl, call.depth) \o Tail(@)
                        ELSE Tail(@)]

\* lines 356 to 398: the fetch of one stylesheet and what follows it
AfterCss(c, call, o) ==
    [c EXCEPT !.fetchedCssUrls = @ \cup {call.url},
              !.log = Append(@, Settled(Started(call.url, "css", call.depth), o)),
              !.errors = @ + Thrown(o),
              !.cssContents = IF IsOk(o)
                              THEN Append(@, [url |-> call.url, content |-> o.res])
                              ELSE @,
              !.calls = IF IsOk(o)
                        THEN importCalls(o.res, call.url, c.baseUrl, call.depth) \o Tail(@)
                        ELSE Tail(@)]

\* line 404: the loop over the top-level stylesheets is left
LoopEnds(c) ==
    \/ Len(c.calls) = 0
    \/ Len(c.calls) > 0 /\ Head(c.calls).depth = 0 /\ Len(c.cssContents) >= maxCss

CrawlInit ==
    /\ CrawlerIdle
    /\ imageStore = EmptyStore
    /\ StoreIdle
    /\ SanitizerIdle
    /\ AnalyzerIdle
    /\ BuilderIdle

otherVars == <<imageStore, storeVars, sanitizerVars, analyzerVars, builderVars>>

\* a request arrives; the handler runs up to the seed fetch
Post ==
    /\ crawl.phase \in {"idle", "done"}
    /\ \E body \in Requests : crawl' = Validate(body, NewURL(body.value))
    /\ UNCHANGED otherVars

SeedSettles ==
    /\ crawl.phase = "seed"
    /\ \E o \in Outcomes(crawl.url, crawl.errors) :
          crawl' = AfterSeed(SettleLog(crawl, 1, o), fetchPage(o))
    /\ UNCHANGED otherVars

\* one subpage fetch settles; ahead records that a fetch has settled while
\* one that was started before it was pending
SubpageSettles ==
    /\ crawl.phase = "subpages"
    /\ \E i \in 1..Len(crawl.selected) :
          /\ crawl.results[i].pending
          /\ Cardinality({j \in 1..(i - 1) : crawl.results[j].pending}) < MaxAhead
          /\ \E o \in Outcomes(crawl.selected[i], crawl.errors) :
                crawl' = [SettleLog(crawl, i + 1, o) EXCEPT
                            !.results[i] = SubpageResult(crawl.selected[i], fetchPage(o)),
                            !.ahead = @ \/ \E j \in 1..(i - 1) : crawl.results[j].pending]
    /\ UNCHANGED otherVars

\* Promise.all resolves: the pages are pushed, the stylesheet links collected
JoinSubpages ==
    /\ crawl.phase = "subpages"
    /\ \A i \in 1..Len(crawl.results) : ~crawl.results[i].pending
    /\ crawl' = AfterSubpages(crawl, PushResults(crawl.htmlPages, crawl.results, 1))
    /\ UNCHANGED otherVars

\* the next call of fetchCssWithImports
CssCall ==
    /\ crawl.phase = "css"
    /\ ~LoopEnds(crawl)
    /\ IF cssReturnsEarly(Head(crawl.calls), crawl.fetchedCssUrls, crawl.cssContents)
       THEN crawl' = [crawl EXCEPT !.calls = Tail(@)]
       ELSE \E o \in Outcomes(Head(crawl.calls).url, crawl.errors) :
                crawl' = AfterCss(crawl, Head(crawl.calls), o)
    /\ UNCHANGED otherVars

\* lines 407 to 415
Respond ==
    /\ crawl.phase = "css"
    /\ LoopEnds(crawl)
    /\ crawl' = [crawl EXCEPT !.phase = "done",
                              !.response = [status |-> 200, html |-> crawl.htmlPages,
                                            css |-> crawl.cssContents]]
    /\ UNCHANGED otherVars

NextCrawl == Post \/ SeedSettles \/ SubpageSettles \/ JoinSubpages \/ CssCall \/ Respond

SpecCrawl == CrawlInit /\ [][NextCrawl]_vars

\* every stylesheet fetch that was started settles, and the handler then
\* runs on to the next call or to the response
SpecCrawlFair == SpecCrawl /\ WF_vars(CssCall \/ Respond)

----------------------------------------------------------------------------
(* Properties of the crawl *)

IsInvalid(body) == ~body.present \/ body.value = <<>> \/ ~NewURL(body.value).ok

C16_OnlySeedFailureIsFatal ==
    /\ (Len(crawl.log) > 0 /\ crawl.log[1].state = "failed")
       => /\ crawl.phase = "done"
          /\ crawl.response.status = 400
          /\ Len(crawl.log) = 1
    /\ (crawl.phase = "done" /\ \E i \in 2..Len(crawl.log) : crawl.log[i].state = "failed")
       => crawl.response.status = 200

\* the seed fetch got a non-OK response and the crawl ended
C16_Witness ==
    /\ crawl.phase = "done"
    /\ Len(crawl.log) = 1
    /\ crawl.log[1].state = "failed"
    /\ crawl.errors = 0
    /\ crawl.response.status = 400

UrlsOf(records) == [k \in 1..Len(records) |-> records[k].url]

\* the urls whose fetch got an OK response, in the order the fetches started
Succeeded(log, kind) ==
    UrlsOf(SelectSeq(log, LAMBDA e : e.kind = kind /\ e.state = "ok"))

\* C17: when the seed fetch succeeded the crawl answers with a success that
\* holds the seed page and exactly the pages and the stylesheets whose fetch
\* succeeded, whatever other fetches failed
C17_SuccessfulFetchesReturned ==
    (crawl.phase = "done" /\ Len(crawl.log) > 0 /\ crawl.log[1].state = "ok")
    => /\ crawl.response.status = 200
       /\ UrlsOf(crawl.response.html) = Succeeded(crawl.log, "page")
       /\ UrlsOf(crawl.response.css) = Succeeded(crawl.log, "css")

\* the same for the fetches that got an OK response with a body
NonEmptyFetchesReturned ==
    (crawl.phase = "done" /\ Len(crawl.log) > 0 /\ crawl.log[1].state = "ok"
       /\ ~crawl.log[1].empty)
    => /\ crawl.response.status = 200
       /\ UrlsOf(crawl.response.html)
             = UrlsOf(SelectSeq(crawl.log, LAMBDA e : e.kind = "page" /\ e.state = "ok"
                                                      /\ ~e.empty))
       /\ UrlsOf(crawl.response.css) = Succeeded(crawl.log, "css")

Fetched(log, kind) == SelectSeq(log, LAMBDA e : e.kind = kind)

\* C18: a crawl fetches at most 20 subpages besides the seed, returns at most
\* 15 stylesheets, and fetches no stylesheet at an import depth above 2
C18_FetchesBounded ==
    /\ Len(Fetched(crawl.log, "page")) <= 1 + maxTotal
    /\ Len(crawl.cssContents) <= maxCss
    /\ Len(crawl.response.css) <= maxCss
    /\ \A i \in 1..Len(crawl.log) : crawl.log[i].kind = "css" => crawl.log[i].depth <= maxDepth

\* a crawl that fetched 20 subpages, returned 15 stylesheets and fetched one
\* of them at depth 2 has ended
C18_Witness ==
    /\ crawl.phase = "done"
    /\ Len(Fetched(crawl.log, "page")) = 1 + maxTotal
    /\ Len(crawl.response.css) = maxCss
    /\ \E i \in 1..Len(crawl.log) : crawl.log[i].kind = "css" /\ crawl.log[i].depth = maxDepth

HostPrefixes == { <<"w","w","w",".">>, <<"m",".">>, <<"m","o","b","i","l","e",".">> }

\* a host without a leading www., m. or mobile.
MainHost(host) ==
    IF \E p \in HostPrefixes : AtCI(host, 1, p)
    THEN LET p == CHOOSE q \in HostPrefixes : AtCI(host, 1, q)
         IN  SubSeq(host, Len(p) + 1, Len(host))
    ELSE host

OnSeedHost(u, seed) == MainHost(NewURL(u).host) = MainHost(NewURL(seed).host)

\* every returned page is on the host of the seed
PagesOnSeedHost ==
    \A k \in 1..Len(crawl.response.html) : OnSeedHost(crawl.response.html[k].url, crawl.url)

\* C19: every page and every stylesheet of a crawl result has the host of
\* the seed url, a leading www., m. or mobile. aside
C19_ResultOnSeedHost ==
    /\ PagesOnSeedHost
    /\ \A k \in 1..Len(crawl.response.css) : OnSeedHost(crawl.response.css[k].url, crawl.url)

KeysOf(pages) == [k \in 1..Len(pages) |-> normalizeUrl(pages[k].url)]

\* the subpages of a result have keys that differ from one another
SubpageKeysDiffer ==
    \A i, j \in 2..Len(crawl.response.html) :
        i # j => normalizeUrl(crawl.response.html[i].url) # normalizeUrl(crawl.response.html[j].url)

\* C20: no two pages of a crawl result, the seed included, have the same
\* normalized key (the path with the mid parameter when there is one, the
\* path with the query string otherwise)
C20_PageKeysDiffer ==
    \A i, j \in 1..Len(crawl.response.html) :
        i # j => KeysOf(crawl.response.html)[i] # KeysOf(crawl.response.html)[j]

Subpages(response) == SubSeq(response.html, 2, Len(response.html))

\* a segment of the path of the url is one of the words
HasPathSegment(u, words) ==
    \E k \in 1..Len(split(NewURL(u).pathname, "/")) :
        toLowerCase(split(NewURL(u).pathname, "/")[k]) \in words

NoAuthSubpage ==
    \A k \in 1..Len(Subpages(crawl.response)) :
        ~HasPathSegment(Subpages(crawl.response)[k].url, AuthSegments)

\* no returned subpage is a binary or carries a search, sort, filter or page
\* number parameter, and no returned stylesheet is one of a carousel library
NoBinaryQueryCarousel ==
    /\ \A k \in 1..Len(Subpages(crawl.response)) :
          /\ ~IsBinaryLink(Subpages(crawl.response)[k].url)
          /\ ~IsExcludedQuery(Subpages(crawl.response)[k].url)
    /\ \A k \in 1..Len(crawl.response.css) : ~IsExcludedCss(crawl.response.css[k].url)

\* C21: no returned subpage has an authentication or administration segment
\* in its path (login, logout, signin, signout, register, signup, admin, api,
\* auth, with or without a slash after it), is a binary, or carries a search,
\* sort, filter or page number parameter; no returned stylesheet is one of a
\* carousel library
C21_NoExcludedResult == NoAuthSubpage /\ NoBinaryQueryCarousel

CssFetches == Fetched(crawl.log, "css")

EachSheetFetchedOnce ==
    \A i, j \in 1..Len(CssFetches) : i # j => CssFetches[i].url # CssFetches[j].url

\* C28: the stylesheet phase of a crawl comes to its end, also when the
\* imports of the stylesheets form a cycle or a stylesheet imports itself,
\* and no stylesheet url is fetched twice in a crawl
C28_CssPhaseTerminates ==
    /\ []EachSheetFetchedOnce
    /\ (crawl.phase = "css") ~> (crawl.phase = "done")

\* a crawl has ended that fetched two stylesheets which import one another
\* and one that imports itself
C28_Witness ==
    /\ crawl.phase = "done"
    /\ \E i, j, k \in 1..Len(CssFetches) :
          /\ CssFetches[i].url = <<"h","t","t","p","s",":","/","/","a",".","c","o","m","/","c","s","s","/","m","a","i","n",".","c","s","s">>
          /\ CssFetches[j].url = <<"h","t","t","p","s",":","/","/","a",".","c","o","m","/","c","s","s","/","b","a","s","e",".","c","s","s">>
          /\ CssFetches[k].url = <<"h","t","t","p","s",":","/","/","a",".","c","o","m","/","c","s","s","/","d","e","e","p",".","c","s","s">>
          /\ CssFetches[i].state = "ok" /\ CssFetches[j].state = "ok"
          /\ CssFetches[k].state = "ok"

\* the selected links whose fetch returned a body, in the order of selection
Returned(c) ==
    UrlsOf(SelectSeq(SubSeq(c.log, 2, Len(c.selected) + 1),
                     LAMBDA e : e.state = "ok" /\ ~e.empty))

\* C29: the html list of a result is the seed page followed by the subpages
\* whose fetch returned a page, in the order in which their links were
\* selected, whatever the order in which the fetches settled; while a
\* subpage fetch is pending nothing but the seed page has been collected
C29_SelectionOrderKept ==
    /\ (crawl.phase = "done" /\ crawl.response.status = 200)
       => UrlsOf(crawl.response.html) = <<crawl.url>> \o Returned(crawl)
    /\ (\E i \in 1..Len(crawl.results) : crawl.results[i].pending)
       => /\ UrlsOf(crawl.htmlPages) = <<crawl.url>>
          /\ Len(crawl.cssContents) = 0

\* a crawl has ended in which a subpage fetch settled before an earlier one
\* and at least two subpages were returned
C29_Witness ==
    /\ crawl.phase = "done"
    /\ crawl.response.status = 200
    /\ crawl.ahead
    /\ Len(crawl.response.html) >= 3

----------------------------------------------------------------------------
(* The code block counter over the calls of buildStyleGuide *)

\* the ids of the code blocks of a document, in the order of the sections
BlockIds(out) ==
    [k \in 1..Len(SelectSeq(out.sections, LAMBDA s : s.codeId # 0)) |->
        SelectSeq(out.sections, LAMBDA s : s.codeId # 0)[k].codeId]

\* the counter when the c-th call returned
CounterAfter(c) == IF c < Len(outs) THEN outs[c + 1].start ELSE codeBlockId

\* C27: over the calls of buildStyleGuide in one process the code block
\* counter never decreases and grows in each call by the number of code
\* blocks the call rendered, whose ids are the values it passed through, so
\* no id is issued twice; a call with code blocks off renders none, and a
\* section without code source none
C27_CounterCountsBlocks ==
    \A c \in 1..Len(outs) :
        /\ CounterAfter(c) >= outs[c].start
        /\ CounterAfter(c) = outs[c].start + Len(BlockIds(outs[c].out))
        /\ BlockIds(outs[c].out)
              = [k \in 1..Len(BlockIds(outs[c].out)) |-> outs[c].start + k]
        /\ ~inputs.styleOptions.codeblock => Len(BlockIds(outs[c].out)) = 0
        /\ \A k \in 1..Len(outs[c].out.sections) :
              outs[c].out.sections[k].code = <<>> <=> outs[c].out.sections[k].codeId = 0

\* two documents were built, each with several code blocks and with a
\* section that has none
C27_Witness ==
    /\ Len(outs) = 2
    /\ Len(BlockIds(outs[1].out)) >= 2
    /\ Len(BlockIds(outs[2].out)) >= 2
    /\ Len(outs[1].out.sections) > Len(BlockIds(outs[1].out))

----------------------------------------------------------------------------
(* Further properties of analyzeFiles *)

Holds(s, w) == \E i \in 1..Len(s) : At(s, i, w)

ColourValue(value) ==
    \E lit \in { <<"#">>, <<"r","g","b">>, <<"h","s","l">> } : At(value, 1, lit)

FontName(name) ==
    \E w \in { <<"f","o","n","t">>, <<"l","e","t","t","e","r">>, <<"f","a","m","i","l","y">> } : Holds(name, w)

SizeVariable(name, value) ==
    \/ \E unit \in { <<"r","e","m">>, <<"p","x">>, <<"e","m">> } : Holds(value, unit)
    \/ \E w \in { <<"s","i","z","e">>, <<"h","e","i","g","h","t">>, <<"w","i","d","t","h">>, <<"s","p","a","c","e">>, <<"i","n","n","e","r">> } : Holds(name, w)

\* the variable of the result with the name, when there is one
Variable(name) ==
    SelectSeq(result.cssVariables, LAMBDA v : v.name = name)

Grandparent(d, n) == parentElement(d, parentElement(d, n))

\* the matched elements of d whose parent and grandparent are both wrappers
TablesWrappedTwice(d) ==
    {n \in 1..Len(d) : /\ SelTable(d, n)
                       /\ isTableWrapper(d, parentElement(d, n))
                       /\ isTableWrapper(d, Grandparent(d, n))}

PaginationsWrappedTwice(d) ==
    {n \in 1..Len(d) : /\ SelPaginations(d, n)
                       /\ isPaginationWrapper(d, parentElement(d, n)) = "true"
                       /\ isPaginationWrapper(d, Grandparent(d, n)) = "true"}

Captured(list, d, n) == \E i \in 1..Len(list) : CapturedFrom(list[i], d, n)

\* C23: the promotion of a table or a pagination element to its wrapper
\* tries the parent before the grandparent: when both are wrappers, the
\* element captured for it is the parent
C23_ParentBeforeGrandparent ==
    pc = "done" =>
        \A k \in HtmlFilesDone :
            /\ \A n \in TablesWrappedTwice(files[k].nodes) :
                  Captured(result.extractedMarkup.tables, files[k].nodes,
                           parentElement(files[k].nodes, n))
            /\ \A n \in PaginationsWrappedTwice(files[k].nodes) :
                  Captured(result.extractedMarkup.paginations, files[k].nodes,
                           parentElement(files[k].nodes, n))

\* the same with the grandparent as the element captured, for tables
GrandparentCaptured ==
    pc = "done" =>
        \A k \in HtmlFilesDone : \A n \in TablesWrappedTwice(files[k].nodes) :
            Captured(result.extractedMarkup.tables, files[k].nodes,
                     Grandparent(files[k].nodes, n))

\* one of the two strings holds the other (equal strings included)
Contains(a, b) == includes(a, b) \/ includes(b, a)

\* C24: once analyzeFiles has returned, no two entries of paginations hold
\* markup of which one is a substring of, or equal to, the other, whether
\* the class pass or the id pass accepted them
C24_NoNestedPaginations ==
    pc = "done" =>
        \A i, j \in 1..Len(result.extractedMarkup.paginations) :
            i # j => ~Contains(result.extractedMarkup.paginations[i].html,
                               result.extractedMarkup.paginations[j].html)

\* the entries the class pass accepted: their key is no id
ClassPaginations ==
    SelectSeq(result.extractedMarkup.paginations,
              LAMBDA e : e.classes.obj # 0 \/ ~At(e.classes.s, 1, <<"#">>))

\* the same for the entries of the class pass alone
ClassPaginationsNotNested ==
    \A i, j \in 1..Len(ClassPaginations) :
        i # j => ~Contains(ClassPaginations[i].html, ClassPaginations[j].html)

\* the buckets of components that are drawn from the classes alone, and
\* those drawn from the classes and the ids
ClassBuckets == {"buttons", "tables", "boxes", "badges"}

IdentifierBuckets == {"forms", "lists", "modals", "tabs", "pagination", "accordions"}

\* the words of which an identifier of the bucket holds one
BucketWords(b) ==
    CASE b = "buttons" -> { <<"b","t","n">>, <<"b","u","t","t","o","n">> }
      [] b = "forms" -> { <<"f","o","r","m">>, <<"i","n","p","u","t">>, <<"s","e","l","e","c","t">>, <<"s","e","a","r","c","h">> }
      [] b = "tables" -> { <<"t","a","b","l","e">>, <<"t","b","l">> }
      [] b = "boxes" -> { <<"b","o","x">>, <<"c","a","r","d">> }
      [] b = "lists" -> { <<"l","i","s","t">> }
      [] b = "modals" -> { <<"m","o","d","a","l">>, <<"p","o","p","u","p">>, <<"l","a","y","e","r">>, <<"d","i","a","l","o","g">> }
      [] b = "tabs" -> { <<"t","a","b">> }
      [] b = "pagination" -> { <<"p","a","g","e">>, <<"p","a","g","i","n","g">> }
      [] b = "badges" -> { <<"b","a","d","g","e">>, <<"t","a","g">>, <<"s","t","a","t","e">>, <<"s","t","a","t","u","s">> }
      [] OTHER -> { <<"a","c","c","o","r","d","i","o","n">>, <<"c","o","l","l","a","p","s","e">>, <<"t","o","g","g","l","e">>, <<"a","c","o">>, <<"f","a","q">> }

\* the substring rule of a bucket
InBucket(b, c) ==
    /\ \E w \in BucketWords(b) : Holds(c, w)
    /\ b = "buttons" => ~\E w \in SliderWords : Holds(toLowerCase(c), w)
    /\ b = "tabs" => ~Holds(c, <<"t","a","b","l","e">>)

\* the class set, with '#' + id for the buckets that take the ids
Identifiers(b) ==
    IF b \in ClassBuckets THEN result.classes
    ELSE result.classes \o [k \in 1..Len(result.ids) |-> <<"#">> \o result.ids[k]]

Strings(bucket) == [k \in 1..Len(bucket) |-> bucket[k].s]

\* C25: when analyzeFiles has returned, each bucket of components other than
\* typography holds the classes (and, for forms, lists, modals, tabs,
\* pagination and accordions, the ids with '#') that satisfy the bucket's
\* substring rule and nothing else, the buttons bucket no slider class, and
\* typography the class names of typographyInfo; what the role and id passes
\* pushed into components is not kept unless the rule holds of it
C25_BucketsDerived ==
    pc = "done" =>
        /\ \A b \in ClassBuckets \cup IdentifierBuckets :
              /\ \A k \in 1..Len(result.components[b]) : result.components[b][k].obj = 0
              /\ Strings(result.components[b])
                    = SelectSeq(Identifiers(b), LAMBDA c : InBucket(b, c))
        /\ Strings(result.components.typography)
              = [k \in 1..Len(result.typographyInfo) |-> result.typographyInfo[k].className]

\* an analysis has returned whose role="list" pass pushed the class gnb
\* into lists and whose id pass pushed #modal1 into modals: the first is
\* gone, the second is held once
C25_Witness ==
    /\ pc = "done"
    /\ \E k \in 1..Len(files) : files[k] = HtmlFile(15)
    /\ \E k \in 1..Len(result.classes) : result.classes[k] = <<"g","n","b">>
    /\ Len(result.components.lists) = 0
    /\ Strings(result.components.modals) = << <<"#","m","o","d","a","l","1">> >>

\* the selector key of a raw observation: className || 'button' (an element
\* the base selector matches without a class is a button tag)
ObservedKey(b) == IF Truthy(b.classes) THEN b.classes ELSE ClassStr(<<"b","u","t","t","o","n">>)

Observations(key) ==
    Cardinality({j \in 1..Len(result.buttons) : ObservedKey(result.buttons[j]) = key})

RECURSIVE SumOfCounts(_, _)
\* the counts of the first n entries added up, an absent count taken as 0
SumOfCounts(list, n) == IF n = 0 THEN 0 ELSE list[n].count + SumOfCounts(list, n - 1)

\* C30: after analyzeFiles the count of every buttons entry is the number of
\* non-slider elements the base button selector matched under the entry's
\* key, and the counts add up to the length of result.buttons, also when an
\* entry was first created by the role="button" pass
C30_CountsMatchObservations ==
    pc = "done" =>
        /\ \A i \in 1..Len(result.extractedMarkup.buttons) :
               result.extractedMarkup.buttons[i].count =
                   Observations(result.extractedMarkup.buttons[i].classes)
        /\ SumOfCounts(result.extractedMarkup.buttons, Len(result.extractedMarkup.buttons))
               = Len(result.buttons)

\* the counts are never below the observations: an entry that loses track
\* counts one too many
CountsCoverObservations ==
    pc = "done" =>
        \A i \in 1..Len(result.extractedMarkup.buttons) :
            result.extractedMarkup.buttons[i].count >=
                Observations(result.extractedMarkup.buttons[i].classes)

----------------------------------------------------------------------------
(* The class labels of the sections that take additional-class keywords *)

\* the field of additionalClasses that belongs to a section id
KeywordField ==
    [ typography |-> "typography", badges |-> "badge", lists |-> "lists",
      tabs |-> "tabs", tables |-> "tables", buttons |-> "buttons", forms |-> "forms",
      boxes |-> "boxes", modal |-> "modal", pagination |-> "pagination",
      accordions |-> "accordion" ]

\* the label list of the section id when the keywords of its field are
\* merged in: component classes, then the matching global classes, each
\* once, cut to the cap
MergedLabels(id) ==
    slice(SetAddAll(<<>>, SectionParts(id, inputs.analysisResult).classes
                          \o parseAdditionalClasses(inputs.additionalClasses[KeywordField[id]],
                                                    inputs.analysisResult)),
          SectionParts(id, inputs.analysisResult).cap)

LabelsMerged(ids) ==
    \A c \in 1..Len(outs) : \A k \in 1..Len(outs[c].out.sections) :
        outs[c].out.sections[k].id \in ids
            => outs[c].out.sections[k].classes = MergedLabels(outs[c].out.sections[k].id)

\* C26: the class label list of every section that accepts additional-class
\* keywords is the duplicate-free concatenation of its component classes and
\* the global classes that contain a supplied keyword, cut to the cap
C26_LabelsMergeKeywords == LabelsMerged(DOMAIN KeywordField)

\* every such section but the tabs section merges its keywords
LabelsMergedButTabs == LabelsMerged(DOMAIN KeywordField \ {"tabs"})

\* a buttons section whose labels hold a class found through a keyword only
KeywordLabelShown ==
    \E c \in 1..Len(outs) : \E k \in 1..Len(outs[c].out.sections) :
        /\ outs[c].out.sections[k].id = "buttons"
        /\ \E j \in 1..Len(outs[c].out.sections[k].classes) :
              ~\E i \in 1..Len(inputs.analysisResult.components.buttons) :
                  inputs.analysisResult.components.buttons[i].s
                      = outs[c].out.sections[k].classes[j]

====
